---- MODULE Spec2Model ----
(***************************************************************************)
(* A model of PlaywrightTestGenerator (src/src/index.ts): the file         *)
(* prioritizer, the context chunker, the content sanitizer, the response   *)
(* parser and the generation loop.                                         *)
(*                                                                         *)
(* JavaScript strings are TLA+ strings; a character is a string of length  *)
(* one.  TLC evaluates Len, \o and SubSeq on strings, which is all the     *)
(* string operators below use.  Positions are 1-based here and 0-based in  *)
(* the source.                                                             *)
(***************************************************************************)
EXTENDS Integers, Sequences, FiniteSets, TLC

VARIABLES
    pc,                  \* position of the operation under way
    allFiles,            \* _getMatchingFiles' result (discovery order)
    prioritizedFiles,    \* _prioritizeFiles' result
    pushes,              \* the three arrays _prioritizeFiles pushed, in push order
    maxTokensPerRequest, \* config.maxTokensPerRequest
    codeContext,         \* the CodeContext list handed to the chunker
    chunks,              \* _chunkCodeContext's result
    content,             \* a file's text
    sanitized,           \* the results of successive _sanitizeContent passes
    segments,            \* the texts and fenced blocks a response is made of
    aiResponse,          \* the response text handed to the parser
    testFiles,           \* the artifacts parsed so far
    chunkIndex,          \* i of the generation loop (0-based)
    requests,            \* the chunk indexes a request was issued for, in order
    outcome,             \* what the generation client answered last
    answers,             \* every answer of the generation client so far, in order
    thrown,              \* the error generateTests rejected with, or NoError
    written,             \* the files _writeTestFiles wrote, in order
    selected,            \* the files handed to _extractCodeContext
    disk,                \* what reading and parsing each selected file gives
    reads,               \* what each fs.readFile of the extraction gave, in order
    outputDir,           \* config.outputDir
    unwritable,          \* the paths fs.writeFile fails on
    ensured,             \* the directories fs.ensureDir was awaited for, in order
    sourceFiles,         \* project.getSourceFiles(): the syntax trees
    analysis,            \* analyze()'s components
    userPrompt,          \* the user prompt of the request issued last
    embedInput,          \* the ComponentAnalysis list handed to embedComponents
    instance,            \* Embedder.instance: <<>> (undefined) or <<pipeline>>
    pipelines,           \* how many times pipeline(...) was called
    callers,             \* each processComponent call: its position and values
    saved                \* what embedComponents wrote and returned, or <<>>

prioritizerVars == <<allFiles, prioritizedFiles, pushes>>

chunkerVars == <<maxTokensPerRequest, codeContext, chunks>>

sanitizerVars == <<content, sanitized>>

parserVars == <<segments, aiResponse>>

generatorVars == <<chunkIndex, requests, outcome, answers, thrown, written>>

extractorVars == <<selected, disk, reads>>

writerVars == <<outputDir, unwritable, ensured>>

analyzerVars == <<sourceFiles, analysis>>

promptVars == <<userPrompt>>

embedderVars == <<embedInput, instance, pipelines, callers, saved>>

vars == <<pc, prioritizerVars, chunkerVars, sanitizerVars, parserVars,
          testFiles, generatorVars, extractorVars, writerVars, analyzerVars,
          promptVars, embedderVars>>

(***************************************************************************)
(* Strings                                                                 *)
(***************************************************************************)

Min(a, b) == IF a < b THEN a ELSE b

Max(a, b) == IF a > b THEN a ELSE b

\* s.charAt(i - 1): the character at 1-based position i, "" outside s.
CharAt(s, i) == IF i >= 1 /\ i <= Len(s) THEN SubSeq(s, i, i) ELSE ""

\* Whether t occurs in s at 1-based position i.
StartsWithAt(s, t, i) ==
    /\ i >= 1
    /\ i + Len(t) - 1 <= Len(s)
    /\ SubSeq(s, i, i + Len(t) - 1) = t

\* String.prototype.includes.
Includes(s, t) == \E i \in 1..(Len(s) - Len(t) + 1) : StartsWithAt(s, t, i)

\* s.indexOf(t, from - 1) + 1: the least position >= from where t occurs, 0 if none.
IndexOfFrom(s, t, from) ==
    LET hits == {i \in Max(from, 1)..(Len(s) - Len(t) + 1) : StartsWithAt(s, t, i)}
    IN  IF hits = {} THEN 0 ELSE CHOOSE i \in hits : \A j \in hits : i <= j

\* s.lastIndexOf(t) + 1.
LastIndexOf(s, t) ==
    LET hits == {i \in 1..(Len(s) - Len(t) + 1) : StartsWithAt(s, t, i)}
    IN  IF hits = {} THEN 0 ELSE CHOOSE i \in hits : \A j \in hits : i >= j

UpperLetters == "ABCDEFGHIJKLMNOPQRSTUVWXYZ"

LowerLetters == "abcdefghijklmnopqrstuvwxyz"

DecimalDigits == "0123456789"

\* The lower-case letter of each upper-case letter.
LowerOf ==
    [c \in {SubSeq(UpperLetters, k, k) : k \in 1..Len(UpperLetters)} |->
        LET k == CHOOSE k \in 1..Len(UpperLetters) : SubSeq(UpperLetters, k, k) = c
        IN  SubSeq(LowerLetters, k, k)]

LowerChar(c) == IF c \in DOMAIN LowerOf THEN LowerOf[c] ELSE c

RECURSIVE LowerBetween(_, _, _)
\* The characters i..j of s in lower case (by halves, to keep the evaluation
\* of a long text shallow).
LowerBetween(s, i, j) ==
    IF i > j THEN ""
    ELSE IF i = j THEN LowerChar(SubSeq(s, i, i))
    ELSE LowerBetween(s, i, (i + j) \div 2) \o LowerBetween(s, ((i + j) \div 2) + 1, j)

\* String.prototype.toLowerCase (ASCII letters).
ToLowerCase(s) == LowerBetween(s, 1, Len(s))

\* s.toLowerCase().includes(t) for a lower-case t: the pieces of s that start
\* with the first letter of t are the only ones put in lower case.
LowerIncludes(s, t) ==
    LET firsts == {SubSeq(t, 1, 1)} \cup {c \in DOMAIN LowerOf : LowerOf[c] = SubSeq(t, 1, 1)}
    IN  \E i \in 1..(Len(s) - Len(t) + 1) :
            /\ SubSeq(s, i, i) \in firsts
            /\ ToLowerCase(SubSeq(s, i, i + Len(t) - 1)) = t

RECURSIVE StripTrailingSlashes(_)
StripTrailingSlashes(p) ==
    IF Len(p) > 1 /\ CharAt(p, Len(p)) = "/"
    THEN StripTrailingSlashes(SubSeq(p, 1, Len(p) - 1))
    ELSE p

\* path.basename (posix): the part after the last "/", trailing slashes dropped.
Basename(filePath) ==
    LET p == StripTrailingSlashes(filePath)
    IN  IF p = "/" THEN "" ELSE SubSeq(p, LastIndexOf(p, "/") + 1, Len(p))

\* Array.prototype.includes.
ArrayIncludes(arr, x) == \E i \in 1..Len(arr) : arr[i] = x

\* Array.prototype.slice(start, end) with its clamping of negative and
\* oversized indexes (start, end 0-based as in the source).
Slice(arr, start, end) ==
    LET n    == Len(arr)
        from == IF start < 0 THEN Max(n + start, 0) ELSE Min(start, n)
        to   == IF end < 0 THEN Max(n + end, 0) ELSE Min(end, n)
    IN  SubSeq(arr, from + 1, to)

(***************************************************************************)
(* File Prioritizer                                                        *)
(***************************************************************************)

MAX_PRIORITIZED == 30

uiIndicators ==
    {"component", "button", "form", "page", "view", "modal",
     "dialog", "card", "panel", "input", "select"}

_isUIComponent(filePath) ==
    LET fileName == ToLowerCase(Basename(filePath))
    IN  \E indicator \in uiIndicators :
            \/ Includes(fileName, indicator)
            \/ Includes(filePath, "/components/")
            \/ Includes(filePath, "/pages/")

\* The entry-point test of the second filter, without its "not yet pushed" part.
IsEntryPoint(file) ==
    \/ Includes(file, "index.")
    \/ Includes(file, "main.")
    \/ Includes(file, "app.")

uiFilesOf(files) == SelectSeq(files, _isUIComponent)

\* The second filter without its "not yet pushed" test.
EntryFilterNoExclusion(files, pushed) == SelectSeq(files, IsEntryPoint)

\* allFiles.filter(file => !prioritizedFiles.includes(file) && (...)).
EntryFilter(files, pushed) ==
    LET keep(file) == ~ArrayIncludes(pushed, file) /\ IsEntryPoint(file)
    IN  SelectSeq(files, keep)

\* allFiles.filter(file => !prioritizedFiles.includes(file)).
OtherFilter(files, pushed) ==
    LET keep(file) == ~ArrayIncludes(pushed, file)
    IN  SelectSeq(files, keep)

\* Math.min(30 - prioritizedFiles.length, otherFiles.length).
remainingToAdd(nPushed, nOther) == Min(MAX_PRIORITIZED - nPushed, nOther)

\* The three pushes of _prioritizeFiles: uiFiles, entryFiles and
\* otherFiles.slice(0, remainingToAdd).
PrioritizeParts(files) ==
    LET ui     == uiFilesOf(files)
        entry  == EntryFilter(files, ui)
        pushed == ui \o entry
        other  == OtherFilter(files, pushed)
    IN  [uiFiles    |-> ui,
         entryFiles |-> entry,
         otherFiles |-> other,
         added      |-> Slice(other, 0, remainingToAdd(Len(pushed), Len(other)))]

\* prioritizedFiles after the three pushes.
Pushed(p) == p.uiFiles \o p.entryFiles \o p.added

_prioritizeFiles(files) == Pushed(PrioritizeParts(files))

(***************************************************************************)
(* Discovered file lists: what _getMatchingFiles hands to the prioritizer. *)
(* One batch of matches per include pattern, appended in pattern order.    *)
(***************************************************************************)

MaxSmallBatch == 2

MaxOverCap == 1

RECURSIVE NatStr(_)
\* String(n) for n >= 0.
NatStr(n) ==
    IF n < 10 THEN SubSeq(DecimalDigits, n + 1, n + 1)
    ELSE NatStr(n \div 10) \o SubSeq(DecimalDigits, (n % 10) + 1, (n % 10) + 1)

FileKinds == {"ui", "entry", "uiEntry", "other"}

\* The n-th absolute path of a kind; odd and even n take the two forms of it.
PathOf(kind, n) ==
    LET odd == (n % 2 = 1)
        num == NatStr(n)
    IN  CASE kind = "ui" ->
                IF odd THEN "/w/components/c" \o num \o ".tsx"
                       ELSE "/w/src/Modal" \o num \o ".tsx"
          [] kind = "entry" ->
                IF odd THEN "/w/m" \o num \o "/index.ts"
                       ELSE "/w/src/app." \o num \o ".ts"
          [] kind = "uiEntry" ->
                IF odd THEN "/w/pages/p" \o num \o "/main.tsx"
                       ELSE "/w/src/index.view" \o num \o ".ts"
          [] OTHER ->
                IF odd THEN "/w/lib/util" \o num \o ".ts"
                       ELSE "/w/src/Main" \o num \o ".ts"

\* count matches of one pattern, numbered from first.
Batch(kind, first, count) == [i \in 1..count |-> PathOf(kind, first + i - 1)]

SmallBatchSizes == 0..MaxSmallBatch

BatchSizes ==
    SmallBatchSizes \cup ((MAX_PRIORITIZED - 1)..(MAX_PRIORITIZED + MaxOverCap))

\* allFiles = [...allFiles, ...matches] over three include patterns whose
\* matches are of kinds k1, k2, k3 and number n1, n2, n3.
Discovered(k1, n1, k2, n2, k3, n3) ==
    Batch(k1, 1, n1) \o Batch(k2, n1 + 1, n2) \o Batch(k3, n1 + n2 + 1, n3)

(***************************************************************************)
(* Outputs not yet computed, and the variables an operation leaves alone.  *)
(***************************************************************************)

NoError == [isError |-> FALSE, status |-> 0, message |-> ""]

NoOutcome == [kind |-> "none"]

PrioritizerIdle ==
    /\ allFiles = <<>>
    /\ prioritizedFiles = <<>>
    /\ pushes = <<>>

ChunkerIdle ==
    /\ maxTokensPerRequest = 0
    /\ codeContext = <<>>
    /\ chunks = <<>>

SanitizerIdle ==
    /\ content = ""
    /\ sanitized = <<>>

ParserIdle ==
    /\ segments = <<>>
    /\ aiResponse = ""
    /\ testFiles = <<>>

GeneratorIdle ==
    /\ chunkIndex = 0
    /\ requests = <<>>
    /\ outcome = NoOutcome
    /\ answers = <<>>
    /\ thrown = NoError
    /\ written = <<>>

ExtractorIdle ==
    /\ selected = <<>>
    /\ disk = <<>>
    /\ reads = <<>>

WriterIdle ==
    /\ outputDir = ""
    /\ unwritable = {}
    /\ ensured = <<>>

AnalyzerIdle ==
    /\ sourceFiles = <<>>
    /\ analysis = <<>>

PromptIdle == userPrompt = ""

EmbedderIdle ==
    /\ embedInput = <<>>
    /\ instance = <<>>
    /\ pipelines = 0
    /\ callers = <<>>
    /\ saved = <<>>

(***************************************************************************)
(* The prioritizer applied to a discovered list.                           *)
(***************************************************************************)

InitPrioritize ==
    /\ pc = "discovered"
    /\ \E k1, k2, k3 \in FileKinds :
       \E n1 \in BatchSizes, n2, n3 \in SmallBatchSizes :
            allFiles \in {Discovered(k1, n1, k2, n2, k3, n3),
                          Discovered(k2, n2, k1, n1, k3, n3)}
    /\ prioritizedFiles = <<>>
    /\ pushes = <<>>
    /\ ChunkerIdle /\ SanitizerIdle /\ ParserIdle /\ GeneratorIdle
    /\ ExtractorIdle /\ WriterIdle /\ AnalyzerIdle
    /\ PromptIdle /\ EmbedderIdle

Prioritize ==
    /\ pc = "discovered"
    /\ pc' = "prioritized"
    /\ pushes' = PrioritizeParts(allFiles)
    /\ prioritizedFiles' = Pushed(pushes')
    /\ UNCHANGED <<allFiles, chunkerVars, sanitizerVars, parserVars, testFiles,
                   generatorVars,
                   extractorVars, writerVars, analyzerVars,
                   promptVars, embedderVars>>

NextPrioritize == Prioritize

SpecPrioritize == InitPrioritize /\ [][NextPrioritize]_vars

(***************************************************************************)
(* Claims about the prioritizer (under SpecPrioritize).                    *)
(***************************************************************************)

\* The tier the prioritization rule gives a path: 1 for a UI file, 2 for an
\* entry point that is not a UI file, 3 for every other file.
RuleTier(file) ==
    IF _isUIComponent(file) THEN 1 ELSE IF IsEntryPoint(file) THEN 2 ELSE 3

IsTier3(file) == RuleTier(file) = 3

IsTier1Or2(file) == RuleTier(file) < 3

\* C3: whatever the discovered list, the list _prioritizeFiles returns has at
\* most 30 entries.
C3_AtMostThirty ==
    pc = "prioritized" => Len(prioritizedFiles) <= MAX_PRIORITIZED

\* C4: when tier 1 and tier 2 together number 30 or more, the output holds no
\* tier-3 file; otherwise its tier-3 files are exactly the first (30 minus
\* that number) tier-3 files, in discovery order.
C4_Tier3Fill ==
    pc = "prioritized" =>
        LET n       == Len(SelectSeq(allFiles, IsTier1Or2))
            tier3   == SelectSeq(allFiles, IsTier3)
            inOut   == SelectSeq(prioritizedFiles, IsTier3)
        IN  IF n >= MAX_PRIORITIZED
            THEN inOut = <<>>
            ELSE inOut = SubSeq(tier3, 1, Min(MAX_PRIORITIZED - n, Len(tier3)))

RECURSIVE TiersFrom(_, _)
TiersFrom(files, i) ==
    IF i > Len(files) THEN <<>>
    ELSE <<RuleTier(files[i])>> \o TiersFrom(files, i + 1)

\* The rule's tier of each entry of a list.
TiersOf(files) == TiersFrom(files, 1)

\* C5: in the returned list every tier-1 file precedes every tier-2 file, which
\* precedes every tier-3 file; each push holds only files of its own tier, and
\* no path is pushed under two different tiers.
C5_TierOrder ==
    pc = "prioritized" =>
        LET tiers == TiersOf(prioritizedFiles)
            nUi   == Len(pushes.uiFiles)
            nEnt  == Len(pushes.entryFiles)
        IN  /\ \A i, j \in 1..Len(tiers) : i < j => tiers[i] <= tiers[j]
            /\ Len(tiers) = nUi + nEnt + Len(pushes.added)
            /\ \A i \in 1..Len(tiers) :
                    tiers[i] = IF i <= nUi THEN 1 ELSE IF i <= nUi + nEnt THEN 2 ELSE 3
            /\ \A i \in 1..nUi :
                    /\ ~ArrayIncludes(pushes.entryFiles, pushes.uiFiles[i])
                    /\ ~ArrayIncludes(pushes.added, pushes.uiFiles[i])
            /\ \A i \in 1..nEnt :
                    ~ArrayIncludes(pushes.added, pushes.entryFiles[i])

\* A run where the discovered list starts with a tier-3 file, holds a file that
\* is both a UI file and an entry point, and the output has all three tiers.
C5_Witness ==
    /\ pc = "prioritized"
    /\ Len(allFiles) > 0
    /\ RuleTier(allFiles[1]) = 3
    /\ \E i \in 1..Len(allFiles) :
            _isUIComponent(allFiles[i]) /\ IsEntryPoint(allFiles[i])
    /\ \A t \in 1..3 :
            \E i \in 1..Len(prioritizedFiles) : RuleTier(prioritizedFiles[i]) = t

(***************************************************************************)
(* Context Chunker                                                         *)
(***************************************************************************)

avgTokenRatio == 4

\* (this.config.maxTokensPerRequest / 2) * avgTokenRatio.  The source divides
\* in floating point; the product with the even ratio is the integer below.
targetSizeOf(maxTokens) == (maxTokens * avgTokenRatio) \div 2

\* The test without the current chunk's size.
ShouldCloseBySizeAlone(currentSize, size, targetSize, currentLength) ==
    size > targetSize /\ currentLength > 0

\* The test that also closes a chunk the next context would fill exactly.
ShouldCloseAtBudget(currentSize, size, targetSize, currentLength) ==
    currentSize + size >= targetSize /\ currentLength > 0

\* currentSize + fileContext.size > targetSize && currentChunk.length > 0.
ShouldClose(currentSize, size, targetSize, currentLength) ==
    currentSize + size > targetSize /\ currentLength > 0

\* The return without the push of the last chunk.
FinalPushSkipped(done, currentChunk) == done

\* if (currentChunk.length > 0) chunks.push(currentChunk).
FinalPush(done, currentChunk) ==
    IF Len(currentChunk) > 0 THEN Append(done, currentChunk) ELSE done

RECURSIVE ChunkLoop(_, _, _, _, _, _)
\* The for loop from its k-th context on, with the loop's variables so far.
ChunkLoop(contexts, k, done, currentChunk, currentSize, targetSize) ==
    IF k > Len(contexts) THEN FinalPush(done, currentChunk)
    ELSE LET fileContext == contexts[k]
             close == ShouldClose(currentSize, fileContext.size, targetSize,
                                  Len(currentChunk))
             done1 == IF close THEN Append(done, currentChunk) ELSE done
             chunk1 == IF close THEN <<>> ELSE currentChunk
             size1 == IF close THEN 0 ELSE currentSize
         IN  ChunkLoop(contexts, k + 1, done1, Append(chunk1, fileContext),
                       size1 + fileContext.size, targetSize)

_chunkCodeContext(contexts, maxTokens) ==
    ChunkLoop(contexts, 1, <<>>, <<>>, 0, targetSizeOf(maxTokens))

MaxContexts == 4

MaxSize == 4

MaxTokens == 3

\* The CodeContext of the k-th file of a list, as far as the chunker reads it:
\* the other fields (summary, exportedItems, content) ride along unread.
ContextOf(k, size) == [file |-> "/w/src/f" \o NatStr(k) \o ".ts", size |-> size]

\* The lists of up to maxLength contexts of sizes up to maxSize.
ContextLists(maxLength, maxSize) ==
    UNION {{[k \in 1..n |-> ContextOf(k, sizes[k])] : sizes \in [1..n -> 0..maxSize]}
            : n \in 0..maxLength}

InitChunk ==
    /\ pc = "extracted"
    /\ maxTokensPerRequest \in 0..MaxTokens
    /\ codeContext \in ContextLists(MaxContexts, MaxSize)
    /\ chunks = <<>>
    /\ PrioritizerIdle /\ SanitizerIdle /\ ParserIdle /\ GeneratorIdle
    /\ ExtractorIdle /\ WriterIdle /\ AnalyzerIdle
    /\ PromptIdle /\ EmbedderIdle

Chunk ==
    /\ pc = "extracted"
    /\ pc' = "chunked"
    /\ chunks' = _chunkCodeContext(codeContext, maxTokensPerRequest)
    /\ UNCHANGED <<prioritizerVars, maxTokensPerRequest, codeContext,
                   sanitizerVars, parserVars, testFiles, generatorVars,
                   extractorVars, writerVars, analyzerVars,
                   promptVars, embedderVars>>

NextChunk == Chunk

SpecChunk == InitChunk /\ [][NextChunk]_vars

(***************************************************************************)
(* Claims about the chunker (under SpecChunk).                             *)
(***************************************************************************)

RECURSIVE Flatten(_)
Flatten(seqs) == IF seqs = <<>> THEN <<>> ELSE Head(seqs) \o Flatten(Tail(seqs))

RECURSIVE SizeSum(_)
SizeSum(chunk) == IF chunk = <<>> THEN 0 ELSE Head(chunk).size + SizeSum(Tail(chunk))

\* C1: the chunks are all non-empty and their concatenation, in order, is the
\* input list: no context is dropped, duplicated, split or reordered.
C1_ChunksPartitionInput ==
    pc = "chunked" =>
        /\ \A c \in 1..Len(chunks) : Len(chunks[c]) > 0
        /\ Flatten(chunks) = codeContext

\* A run whose input is cut into several chunks, one of them of several contexts.
C1_Witness ==
    /\ pc = "chunked"
    /\ Len(chunks) >= 2
    /\ \E c \in 1..Len(chunks) : Len(chunks[c]) >= 2

\* C2: every chunk's cumulative size is at most the budget, except a chunk of
\* exactly one context whose own size exceeds it; an oversized context is
\* alone in its chunk, and two contexts whose combined size exceeds the budget
\* never share a chunk.
C2_ChunksWithinBudget ==
    pc = "chunked" =>
        LET budget == (maxTokensPerRequest * 4) \div 2
        IN  \A c \in 1..Len(chunks) :
                /\ \/ SizeSum(chunks[c]) <= budget
                   \/ Len(chunks[c]) = 1 /\ chunks[c][1].size > budget
                /\ \A i \in 1..Len(chunks[c]) :
                        chunks[c][i].size > budget => Len(chunks[c]) = 1
                /\ \A i, j \in 1..Len(chunks[c]) :
                        i < j => chunks[c][i].size + chunks[c][j].size <= budget

\* A run with an oversized context alone in a chunk that is neither the first
\* nor the last, and a chunk of several contexts filling the budget exactly.
C2_Witness ==
    /\ pc = "chunked"
    /\ LET budget == (maxTokensPerRequest * 4) \div 2
       IN  /\ \E c \in 2..(Len(chunks) - 1) :
                    Len(chunks[c]) = 1 /\ chunks[c][1].size > budget
           /\ \E c \in 1..Len(chunks) :
                    Len(chunks[c]) >= 2 /\ SizeSum(chunks[c]) = budget

\* C22: the chunker is greedy: a chunk is closed only when the next context
\* would exceed the budget, so for every two consecutive chunks the cumulative
\* size of the earlier one plus the size of the first context of the later
\* one is strictly greater than the budget.
C22_ChunksClosedOnlyWhenFull ==
    pc = "chunked" =>
        LET budget == (maxTokensPerRequest * 4) \div 2
        IN  \A c \in 1..(Len(chunks) - 1) :
                SizeSum(chunks[c]) + chunks[c + 1][1].size > budget

\* A run of at least three chunks in which a chunk of several contexts was
\* closed by a context that exceeded the budget by one, and another chunk was
\* closed below the budget.
C22_Witness ==
    /\ pc = "chunked"
    /\ Len(chunks) >= 3
    /\ LET budget == (maxTokensPerRequest * 4) \div 2
       IN  /\ \E c \in 1..(Len(chunks) - 1) :
                  /\ Len(chunks[c]) >= 2
                  /\ SizeSum(chunks[c]) + chunks[c + 1][1].size = budget + 1
           /\ \E c \in 1..(Len(chunks) - 1) :
                  /\ SizeSum(chunks[c]) < budget
                  /\ chunks[c + 1][1].size <= budget

(***************************************************************************)
(* Content sanitizer: four global regular-expression replacements, each a  *)
(* left-to-right scan taking the leftmost match and going on after it.     *)
(***************************************************************************)

\* The characters \s matches, among those a string of the model can hold.
WhitespaceChars == {" ", "\t", "\n", "\r", "\f"}

IsWhitespace(c) == c \in WhitespaceChars

RECURSIVE BlockCommentsFrom(_, _)
\* .replace(/\/\*[\s\S]*?\*\//g, '') from position i on: a comment runs from
\* "/*" to the first "*/" after it; a "/*" that is never closed stays.
BlockCommentsFrom(s, i) ==
    IF i > Len(s) THEN ""
    ELSE LET close == IF StartsWithAt(s, "/*", i)
                      THEN IndexOfFrom(s, "*/", i + 2) ELSE 0
         IN  IF close > 0 THEN BlockCommentsFrom(s, close + 2)
             ELSE SubSeq(s, i, i) \o BlockCommentsFrom(s, i + 1)

RemoveBlockComments(s) == BlockCommentsFrom(s, 1)

RECURSIVE LineCommentsFrom(_, _)
\* .replace(/\/\/[^\n]*/g, '') from position i on: "//" and the rest of its line.
LineCommentsFrom(s, i) ==
    IF i > Len(s) THEN ""
    ELSE IF StartsWithAt(s, "//", i)
         THEN LET nl == IndexOfFrom(s, "\n", i + 2)
              IN  IF nl = 0 THEN "" ELSE LineCommentsFrom(s, nl)
         ELSE SubSeq(s, i, i) \o LineCommentsFrom(s, i + 1)

RemoveLineComments(s) == LineCommentsFrom(s, 1)

RECURSIVE RunEnd(_, _, _)
\* The last position of the run of characters of set cs that starts at i
\* (i - 1 when the character at i is not in cs).
RunEnd(s, i, cs) ==
    IF i <= Len(s) /\ SubSeq(s, i, i) \in cs THEN RunEnd(s, i + 1, cs) ELSE i - 1

RECURSIVE BlankLinesFrom(_, _)
\* .replace(/\n\s*\n\s*\n/g, '\n\n') from position i on.  A match starts at a
\* newline whose whitespace run holds at least three newlines, and, \s* being
\* greedy, ends at the last newline of that run.
BlankLinesFrom(s, i) ==
    IF i > Len(s) THEN ""
    ELSE LET run      == RunEnd(s, i, WhitespaceChars)
             newlines == {k \in i..run : SubSeq(s, k, k) = "\n"}
             last     == CHOOSE k \in newlines : \A j \in newlines : j <= k
         IN  IF SubSeq(s, i, i) = "\n" /\ Cardinality(newlines) >= 3
             THEN "\n\n" \o BlankLinesFrom(s, last + 1)
             ELSE SubSeq(s, i, i) \o BlankLinesFrom(s, i + 1)

CollapseBlankLines(s) == BlankLinesFrom(s, 1)

RECURSIVE TrailingFrom(_, _)
\* .replace(/[ \t]+\n/g, '\n') from position i on: a run of blanks and tabs
\* that a newline follows.
TrailingFrom(s, i) ==
    IF i > Len(s) THEN ""
    ELSE LET run == RunEnd(s, i, {" ", "\t"})
         IN  IF run >= i /\ StartsWithAt(s, "\n", run + 1)
             THEN "\n" \o TrailingFrom(s, run + 2)
             ELSE SubSeq(s, i, i) \o TrailingFrom(s, i + 1)

RemoveTrailingWhitespace(s) == TrailingFrom(s, 1)

_sanitizeContent(text) ==
    RemoveTrailingWhitespace(
        CollapseBlankLines(RemoveLineComments(RemoveBlockComments(text))))

MaxPieces == 5

\* What a file's text is put together from.
ContentPieces == {"/", "*", "/*", "*/", "\n", " ", "a", "\""}

RECURSIVE Joined(_)
Joined(pieces) == IF pieces = <<>> THEN "" ELSE Head(pieces) \o Joined(Tail(pieces))

\* The texts of up to maxPieces pieces.
Contents(maxPieces) ==
    UNION {{Joined(ps) : ps \in [1..n -> ContentPieces]} : n \in 0..maxPieces}

InitSanitize ==
    /\ pc = "read"
    /\ content \in Contents(MaxPieces)
    /\ sanitized = <<>>
    /\ PrioritizerIdle /\ ChunkerIdle /\ ParserIdle /\ GeneratorIdle
    /\ ExtractorIdle /\ WriterIdle /\ AnalyzerIdle
    /\ PromptIdle /\ EmbedderIdle

\* _sanitizeContent on the file's text.
Sanitize ==
    /\ pc = "read"
    /\ pc' = "sanitized"
    /\ sanitized' = <<_sanitizeContent(content)>>
    /\ UNCHANGED <<prioritizerVars, chunkerVars, content, parserVars, testFiles,
                   generatorVars,
                   extractorVars, writerVars, analyzerVars,
                   promptVars, embedderVars>>

\* _sanitizeContent on its own result.
SanitizeAgain ==
    /\ pc = "sanitized"
    /\ pc' = "resanitized"
    /\ sanitized' = Append(sanitized, _sanitizeContent(sanitized[1]))
    /\ UNCHANGED <<prioritizerVars, chunkerVars, content, parserVars, testFiles,
                   generatorVars,
                   extractorVars, writerVars, analyzerVars,
                   promptVars, embedderVars>>

NextSanitize == Sanitize \/ SanitizeAgain

SpecSanitize == InitSanitize /\ [][NextSanitize]_vars

(***************************************************************************)
(* Response parser.  A TLA+ string literal cannot hold the character       *)
(* U+0060 (the grave accent of a code fence), so Backtick stands for it.   *)
(***************************************************************************)

Backtick == "~"

Fence == Backtick \o Backtick \o Backtick

\* The alternatives of (?:typescript|javascript|ts|js), in the order tried.
LanguageTags == <<"typescript", "javascript", "ts", "js">>

\* [\w\-\.\/]
FilenameChars ==
    {SubSeq(UpperLetters, k, k) : k \in 1..Len(UpperLetters)}
        \cup {SubSeq(LowerLetters, k, k) : k \in 1..Len(LowerLetters)}
        \cup {SubSeq(DecimalDigits, k, k) : k \in 1..Len(DecimalDigits)}
        \cup {"_", "-", ".", "/"}

RECURSIVE TrimStart(_)
TrimStart(s) ==
    IF Len(s) > 0 /\ IsWhitespace(SubSeq(s, 1, 1))
    THEN TrimStart(SubSeq(s, 2, Len(s))) ELSE s

RECURSIVE TrimEnd(_)
TrimEnd(s) ==
    IF Len(s) > 0 /\ IsWhitespace(SubSeq(s, Len(s), Len(s)))
    THEN TrimEnd(SubSeq(s, 1, Len(s) - 1)) ELSE s

\* String.prototype.trim.
Trim(s) == TrimEnd(TrimStart(s))

NoMatch == [ok |-> FALSE, filename |-> "", content |-> "", end |-> 0]

\* A greedy body: up to the last fence.
BodyEndGreedy(s, body) ==
    LET last == LastIndexOf(s, Fence) IN IF last >= body THEN last ELSE 0

\* ([\s\S]*?)```: the lazy body ends where the first fence at or after its
\* start begins (0 when there is none).
BodyEnd(s, body) == IndexOfFrom(s, Fence, body)

\* The pattern from after the optional language tag, tried at position j:
\*   \s*\/\/\s*\[Filename:\s*([\w\-\.\/]+)\]\s*([\s\S]*?)```
\* Each \s* and the name are greedy and what follows them is outside their
\* class, so giving characters back never helps; the body is lazy, so it ends
\* at the first fence.
MatchAfterTag(s, j) ==
    LET slashes == RunEnd(s, j, WhitespaceChars) + 1
        bracket == RunEnd(s, slashes + 2, WhitespaceChars) + 1
        name    == RunEnd(s, bracket + Len("[Filename:"), WhitespaceChars) + 1
        nameEnd == RunEnd(s, name, FilenameChars)
        body    == RunEnd(s, nameEnd + 2, WhitespaceChars) + 1
        close   == BodyEnd(s, body)
    IN  IF /\ StartsWithAt(s, "//", slashes)
           /\ StartsWithAt(s, "[Filename:", bracket)
           /\ nameEnd >= name
           /\ StartsWithAt(s, "]", nameEnd + 1)
           /\ close > 0
        THEN [ok |-> TRUE,
              filename |-> SubSeq(s, name, nameEnd),
              content |-> SubSeq(s, body, close - 1),
              end |-> close + Len(Fence)]
        ELSE NoMatch

RECURSIVE MatchWithTag(_, _, _)
\* The optional group at position j: the k-th alternative and those after it,
\* then the empty alternative; the first that lets the rest match.
MatchWithTag(s, j, k) ==
    IF k > Len(LanguageTags) THEN MatchAfterTag(s, j)
    ELSE LET m == IF StartsWithAt(s, LanguageTags[k], j)
                  THEN MatchAfterTag(s, j + Len(LanguageTags[k])) ELSE NoMatch
         IN  IF m.ok THEN m ELSE MatchWithTag(s, j, k + 1)

\* The pattern tried at position i.
MatchAt(s, i) ==
    IF StartsWithAt(s, Fence, i) THEN MatchWithTag(s, i + Len(Fence), 1) ELSE NoMatch

\* testFilePattern.exec from lastIndex on: the match at the leftmost position
\* where the pattern matches, or NoMatch.
ExecFrom(s, lastIndex) ==
    LET hits == {i \in lastIndex..Len(s) : MatchAt(s, i).ok}
    IN  IF hits = {} THEN NoMatch
        ELSE MatchAt(s, CHOOSE i \in hits : \A j \in hits : i <= j)

RECURSIVE ParseFrom(_, _)
\* The while loop: one TestFile per match, each search starting where the
\* previous match ended.
ParseFrom(s, lastIndex) ==
    LET match == ExecFrom(s, lastIndex)
    IN  IF ~match.ok THEN <<>>
        ELSE <<[filename |-> Trim(match.filename), content |-> Trim(match.content)]>>
                \o ParseFrom(s, match.end)

_parseGeneratedTests(response) == ParseFrom(response, 1)

(***************************************************************************)
(* Response texts: fenced blocks with narrative text before, between and   *)
(* after them.                                                             *)
(***************************************************************************)

MaxBlocks == 2

\* The info strings of a block's opening fence: none, the four the pattern
\* lists, and one it does not.
FenceTags == {"", "typescript", "javascript", "ts", "js", "tsx"}

Narratives ==
    {"",
     "Here are the tests. Run " \o Backtick \o "npx playwright test" \o Backtick \o ".\n",
     "\n// [Filename: notes.txt]\nThe next file covers the form.\n"}

BlockName(k) == IF k % 2 = 1 THEN "login.spec.ts" ELSE "e2e/cart-" \o NatStr(k) \o ".spec.ts"

BlockBody(k) ==
    IF k % 2 = 1 THEN "import { test } from '@playwright/test';\ntest('a', f);\n"
    ELSE "  \n// cart [1]\ntest('b', g);  \n\n"

\* The k-th fenced block of a response.
BlockOf(k, tag, marked) ==
    [kind |-> "block", tag |-> tag, marked |-> marked,
     name |-> BlockName(k), body |-> BlockBody(k)]

TextOf(t) == [kind |-> "text", text |-> t]

\* narrative, block 1, narrative, block 2, ..., narrative.
SegmentsOf(n, narrative, tags, marks) ==
    [k \in 1..(2 * n + 1) |->
        IF k % 2 = 1 THEN TextOf(narrative)
        ELSE BlockOf(k \div 2, tags[k \div 2], marks[k \div 2])]

\* The responses of up to maxBlocks fenced blocks.
SegmentLists(maxBlocks) ==
    UNION {{SegmentsOf(n, narrative, tags, marks) :
                narrative \in Narratives,
                tags \in [1..n -> FenceTags],
                marks \in [1..n -> BOOLEAN]}
            : n \in 0..maxBlocks}

RenderSegment(g) ==
    IF g.kind = "text" THEN g.text
    ELSE Fence \o g.tag \o "\n"
            \o (IF g.marked THEN "// [Filename: " \o g.name \o "]\n" ELSE "")
            \o g.body \o Fence \o "\n"

RECURSIVE Render(_)
Render(segs) == IF segs = <<>> THEN "" ELSE RenderSegment(Head(segs)) \o Render(Tail(segs))

InitParse ==
    /\ pc = "responded"
    /\ segments \in SegmentLists(MaxBlocks)
    /\ aiResponse = Render(segments)
    /\ testFiles = <<>>
    /\ GeneratorIdle
    /\ PrioritizerIdle /\ ChunkerIdle /\ SanitizerIdle
    /\ ExtractorIdle /\ WriterIdle /\ AnalyzerIdle
    /\ PromptIdle /\ EmbedderIdle

ParseResponse ==
    /\ pc = "responded"
    /\ pc' = "parsed"
    /\ testFiles' = _parseGeneratedTests(aiResponse)
    /\ UNCHANGED <<prioritizerVars, chunkerVars, sanitizerVars, parserVars,
                   generatorVars,
                   extractorVars, writerVars, analyzerVars,
                   promptVars, embedderVars>>

NextParse == ParseResponse

SpecParse == InitParse /\ [][NextParse]_vars

(***************************************************************************)
(* Claims about the response parser (under SpecParse).                     *)
(***************************************************************************)

IsBlock(g) == g.kind = "block"

IsMarkedBlock(g) == g.kind = "block" /\ g.marked

\* The fenced blocks of a response, in order of appearance.
BlocksOf(segs) == SelectSeq(segs, IsBlock)

\* The artifact a filename-marked block stands for.
ArtifactOf(g) == [filename |-> g.name, content |-> Trim(g.body)]

\* The artifacts of a list of blocks, in order.
ArtifactsOf(bs) == [k \in 1..Len(bs) |-> ArtifactOf(bs[k])]

\* The tags the pattern accepts on an opening fence, and no tag.
AcceptedTags == {LanguageTags[k] : k \in 1..Len(LanguageTags)} \cup {""}

\* C8 as claimed: for a response of n well-formed fenced blocks that each start
\* with a filename marker, with or without a language tag and with any
\* narrative text around them, the parser returns exactly the n artifacts, in
\* order, with the markers' filenames and the trimmed bodies.
C8_AllMarkedBlocksParsed ==
    (pc = "parsed" /\ \A k \in 1..Len(BlocksOf(segments)) : BlocksOf(segments)[k].marked)
        => testFiles = ArtifactsOf(BlocksOf(segments))

\* C8 as amended: the same, for blocks whose opening fence has no language tag
\* or one of the tags typescript, javascript, ts, js.
C8_MarkedBlocksWithAcceptedTagsParsed ==
    (/\ pc = "parsed"
     /\ \A k \in 1..Len(BlocksOf(segments)) :
            /\ BlocksOf(segments)[k].marked
            /\ BlocksOf(segments)[k].tag \in AcceptedTags)
        => testFiles = ArtifactsOf(BlocksOf(segments))

\* A response with narrative text around two marked blocks, one with a
\* language tag and one without, parsed into its two artifacts.
C8_Witness ==
    /\ pc = "parsed"
    /\ Len(BlocksOf(segments)) = 2
    /\ \A k \in 1..2 : BlocksOf(segments)[k].marked
    /\ {BlocksOf(segments)[k].tag : k \in 1..2} = {"", "typescript"}
    /\ segments[1].text # ""
    /\ Len(testFiles) = 2
    /\ testFiles[2].filename = BlockName(2)

\* C9: no filename marker, no artifact: every artifact returned is the
\* filename and trimmed body of a fenced block of the response that starts
\* with that filename marker; a block without marker and the text outside the
\* blocks yield none.
C9_ArtifactsOnlyFromMarkedBlocks ==
    pc = "parsed" =>
        \A a \in 1..Len(testFiles) :
            \E k \in 1..Len(segments) :
                IsMarkedBlock(segments[k]) /\ testFiles[a] = ArtifactOf(segments[k])

(***************************************************************************)
(* Claims about the sanitizer (under SpecSanitize).                        *)
(***************************************************************************)

\* C6: sanitization is idempotent: sanitizing sanitized content yields the
\* same content, also when removing a comment brings delimiters together.
C6_SanitizeIdempotent ==
    pc = "resanitized" => sanitized[2] = sanitized[1]

RECURSIVE Lex(_, _, _, _)
\* A reading of the text as source code from position i on: code is what lies
\* outside // and /* */ comments, a comment starts only outside a string
\* literal "...", and a line comment ends before its newline.  The result is
\* the code read (string literals included) and the mode the text ends in.
Lex(s, i, mode, code) ==
    IF i > Len(s) THEN [code |-> code, mode |-> mode]
    ELSE LET c == SubSeq(s, i, i)
         IN  CASE mode = "code" ->
                    IF StartsWithAt(s, "//", i) THEN Lex(s, i + 2, "line", code)
                    ELSE IF StartsWithAt(s, "/*", i) THEN Lex(s, i + 2, "block", code)
                    ELSE IF c = "\"" THEN Lex(s, i + 1, "string", code \o c)
                    ELSE Lex(s, i + 1, "code", code \o c)
               [] mode = "line" ->
                    IF c = "\n" THEN Lex(s, i + 1, "code", code \o c)
                    ELSE Lex(s, i + 1, "line", code)
               [] mode = "block" ->
                    IF StartsWithAt(s, "*/", i) THEN Lex(s, i + 2, "code", code)
                    ELSE Lex(s, i + 1, "block", code)
               [] OTHER ->
                    Lex(s, i + 1, IF c = "\"" THEN "code" ELSE "string", code \o c)

RECURSIVE WithoutWhitespace(_, _)
WithoutWhitespace(s, i) ==
    IF i > Len(s) THEN ""
    ELSE (IF IsWhitespace(SubSeq(s, i, i)) THEN "" ELSE SubSeq(s, i, i))
            \o WithoutWhitespace(s, i + 1)

\* C7: sanitization removes only comments, repeated blank lines and trailing
\* whitespace: for a text whose string literals and block comments are all
\* closed, the characters of code outside comments, string literals included,
\* are the characters of the result (whitespace aside).
C7_SanitizeKeepsCode ==
    pc = "sanitized" =>
        LET read == Lex(content, 1, "code", "")
        IN  read.mode \in {"code", "line"} =>
                WithoutWhitespace(sanitized[1], 1) = WithoutWhitespace(read.code, 1)

(***************************************************************************)
(* Context Extractor: _extractCodeContext and _analyzeFile.                *)
(***************************************************************************)

WordChars == FilenameChars \ {"-", ".", "/"}

RECURSIVE SplitFrom(_, _, _)
\* The pieces of s from position i on, cut at each occurrence of sep.
SplitFrom(s, sep, i) ==
    LET j == IndexOfFrom(s, sep, i)
    IN  IF j = 0 THEN <<SubSeq(s, i, Len(s))>>
        ELSE <<SubSeq(s, i, j - 1)>> \o SplitFrom(s, sep, j + Len(sep))

\* String.prototype.split with a non-empty separator.
Split(s, sep) == SplitFrom(s, sep, 1)

RECURSIVE JoinWith(_, _)
\* Array.prototype.join.
JoinWith(arr, sep) ==
    IF arr = <<>> THEN ""
    ELSE IF Len(arr) = 1 THEN arr[1]
    ELSE arr[1] \o sep \o JoinWith(Tail(arr), sep)

\* /export\s+(default\s+)?(\w+)/ tried at position i of line: the second
\* group, or "" when the regex does not match there.  \s+ takes the whole
\* whitespace run; the optional group is tried first and given up when no
\* word follows it.
ExportNameAt(line, i) ==
    IF ~StartsWithAt(line, "export", i) THEN ""
    ELSE LET j == RunEnd(line, i + 6, WhitespaceChars) + 1
             k == RunEnd(line, j + 7, WhitespaceChars) + 1
         IN  IF j = i + 6 THEN ""
             ELSE IF /\ StartsWithAt(line, "default", j)
                     /\ k > j + 7
                     /\ RunEnd(line, k, WordChars) >= k
                  THEN SubSeq(line, k, RunEnd(line, k, WordChars))
                  ELSE SubSeq(line, j, RunEnd(line, j, WordChars))

\* line.match(/export\s+(default\s+)?(\w+)/): match[2] of the leftmost
\* match, '' without a match.
ExportName(line) ==
    LET hits == {i \in 1..Len(line) : ExportNameAt(line, i) # ""}
    IN  IF hits = {} THEN ""
        ELSE ExportNameAt(line, CHOOSE i \in hits : \A h \in hits : i <= h)

\* _extractExports: the simplified version returns no name.
_extractExports(ast) == <<>>

\* The catch block of _analyzeFile: the names after 'export ' on each line.
FallbackExports(text) ==
    LET lines == Split(text, "\n")
        names == [k \in 1..Len(lines) |->
                    IF Includes(lines[k], "export ") THEN ExportName(lines[k]) ELSE ""]
    IN  SelectSeq(names, LAMBDA n : n # "")

ExportsLine(exportedItems) ==
    IF Len(exportedItems) > 0 THEN "\nExports: " \o JoinWith(exportedItems, ", ") ELSE ""

\* _analyzeFile(filePath, content); parses tells whether parseModule accepts
\* the content.
_analyzeFile(filePath, text, parses) ==
    LET fileName  == Basename(filePath)
        lineCount == Len(Split(text, "\n"))
        counted   == "File: " \o fileName \o " (" \o NatStr(lineCount) \o " lines)"
    IN  IF parses
        THEN LET exportedItems == _extractExports(text)
             IN  [summary |-> counted
                                \o (IF _isUIComponent(filePath) THEN " - UI Component" ELSE "")
                                \o ExportsLine(exportedItems),
                  exportedItems |-> exportedItems]
        ELSE LET exportedItems == FallbackExports(text)
             IN  [summary |-> counted \o ExportsLine(exportedItems),
                  exportedItems |-> exportedItems]

\* An iteration that drops a file whose content does not parse.
ProcessFileStrict(file, st) ==
    IF ~st.readable \/ ~st.parses THEN <<>>
    ELSE LET fileInfo == _analyzeFile(file, st.text, st.parses)
         IN  <<[file |-> file,
                summary |-> fileInfo.summary,
                exportedItems |-> fileInfo.exportedItems,
                content |-> _sanitizeContent(st.text),
                size |-> Len(st.text)]>>

\* One iteration of the loop: what it pushes.  fs.readFile rejects for an
\* unreadable file and the catch block logs it.
ProcessFile(file, st) ==
    IF ~st.readable THEN <<>>
    ELSE LET fileInfo == _analyzeFile(file, st.text, st.parses)
         IN  <<[file |-> file,
                summary |-> fileInfo.summary,
                exportedItems |-> fileInfo.exportedItems,
                content |-> _sanitizeContent(st.text),
                size |-> Len(st.text)]>>

\* A comparator that orders by size, largest first.
CompareBySizeDescending(a, b) == b.size - a.size

\* (a, b) => a.size - b.size.
CompareBySize(a, b) == a.size - b.size

RECURSIVE SortBySize(_)
\* codeContexts.sort(compare): stable, a before b when compare(a, b) <= 0.
SortBySize(contexts) ==
    IF contexts = <<>> THEN <<>>
    ELSE LET n      == Len(contexts)
             last   == contexts[n]
             sorted == SortBySize(SubSeq(contexts, 1, n - 1))
             before == SelectSeq(sorted, LAMBDA c : CompareBySize(c, last) <= 0)
             after  == SelectSeq(sorted, LAMBDA c : CompareBySize(c, last) > 0)
         IN  before \o <<last>> \o after

MaxSelected == 2

ExtractPaths == {"/w/src/components/Button.tsx", "/w/src/api.ts", "/w/src/index.js"}

Unreadable == [readable |-> FALSE, text |-> "", parses |-> FALSE]

FileOf(text, parses) == [readable |-> TRUE, text |-> text, parses |-> parses]

\* What a file can hold.  parseModule (a JavaScript parser) rejects the type
\* annotation of the third text and the missing name of the fourth.
FileStates ==
    {Unreadable,
     FileOf("", TRUE),
     FileOf("// entry point\nexport default function App() {}\n", TRUE),
     FileOf("export const n: number = 1;\nexport default  n;\n", FALSE),
     FileOf("const = ;", FALSE),
     FileOf("/* api */\nexport const get = 1;\n", TRUE)}

\* The lists of up to maxLength files, repetitions included.
SelectedLists(maxLength) ==
    UNION {[1..n -> ExtractPaths] : n \in 0..maxLength}

InitExtract ==
    /\ pc = "prioritized"
    /\ selected \in SelectedLists(MaxSelected)
    /\ disk \in [{selected[k] : k \in 1..Len(selected)} -> FileStates]
    /\ reads = <<>>
    /\ PrioritizerIdle /\ ChunkerIdle /\ SanitizerIdle /\ ParserIdle /\ GeneratorIdle
    /\ WriterIdle /\ AnalyzerIdle
    /\ PromptIdle /\ EmbedderIdle

\* generateTests' second step: _extractCodeContext up to its first await.
\* codeContext holds the codeContexts array while the loop runs.
Extract ==
    /\ pc = "prioritized"
    /\ pc' = IF selected = <<>> THEN "extracted" ELSE "reading"
    /\ codeContext' = <<>>
    /\ UNCHANGED <<prioritizerVars, maxTokensPerRequest, chunks, sanitizerVars,
                   parserVars, testFiles, generatorVars, extractorVars,
                   writerVars, analyzerVars,
                   promptVars, embedderVars>>

\* await fs.readFile(file, 'utf8') settles: the rest of the iteration, and
\* after the last file the sort and the return.
FileRead ==
    /\ pc = "reading"
    /\ LET i        == Len(reads) + 1
           st       == disk[selected[i]]
           contexts == codeContext \o ProcessFile(selected[i], st)
       IN  /\ reads' = Append(reads, st)
           /\ IF i = Len(selected)
              THEN /\ codeContext' = SortBySize(contexts)
                   /\ pc' = "extracted"
              ELSE /\ codeContext' = contexts
                   /\ pc' = "reading"
    /\ UNCHANGED <<prioritizerVars, maxTokensPerRequest, chunks, sanitizerVars,
                   parserVars, testFiles, generatorVars, selected, disk,
                   writerVars, analyzerVars,
                   promptVars, embedderVars>>

\* Another callback of the event loop runs while a read is awaited and
\* rewrites, creates or removes one of the files.
DiskChange ==
    /\ pc = "reading"
    /\ \E f \in DOMAIN disk, st \in FileStates :
          /\ st # disk[f]
          /\ disk' = [disk EXCEPT ![f] = st]
    /\ UNCHANGED <<pc, prioritizerVars, chunkerVars, sanitizerVars,
                   parserVars, testFiles, generatorVars, selected, reads,
                   writerVars, analyzerVars,
                   promptVars, embedderVars>>

NextExtract == Extract \/ FileRead \/ DiskChange

SpecExtract == InitExtract /\ [][NextExtract]_vars

(***************************************************************************)
(* Claims about the Context Extractor (under SpecExtract).                 *)
(***************************************************************************)

\* C12: the size recorded in every CodeContext is the character length of its
\* sanitized content (its content field).
C12_SizeIsSanitizedLength ==
    pc = "extracted" =>
        \A k \in 1..Len(codeContext) : codeContext[k].size = Len(codeContext[k].content)

\* C13: the list _extractCodeContext returns is sorted ascending by size,
\* whatever the order of the input files.
C13_SortedBySize ==
    pc = "extracted" =>
        \A k \in 1..(Len(codeContext) - 1) : codeContext[k].size <= codeContext[k + 1].size

\* An extraction whose input lists a larger readable file before a smaller one.
C13_Witness ==
    /\ pc = "extracted"
    /\ Len(codeContext) >= 2
    /\ \E i, j \in 1..Len(selected) :
          /\ i < j
          /\ reads[i].readable /\ reads[j].readable
          /\ Len(reads[i].text) > Len(reads[j].text)

\* How many entries of a list satisfy a test.
CountOf(list, Test(_)) == Len(SelectSeq(list, Test))

\* The entries of the list that name a file and whose read passes a test.
ReadsOf(f, Test(_)) ==
    Cardinality({k \in 1..Len(reads) : selected[k] = f /\ Test(reads[k])})

ContextsOfFile(f) == CountOf(codeContext, LAMBDA c : c.file = f)

\* C14 as claimed: a file whose read or parse fails is absent from the result,
\* and every other selected file has exactly one CodeContext (for each entry
\* of the list).
C14_FailingFilesDropped ==
    pc = "extracted" =>
        \A f \in ExtractPaths :
            ContextsOfFile(f) = ReadsOf(f, LAMBDA st : st.readable /\ st.parses)

\* C14 as amended: a file that cannot be read is absent from the result; a
\* file that is read has exactly one CodeContext for each entry of the list,
\* also when its content does not parse.
C14_UnreadableFilesDropped ==
    pc = "extracted" =>
        \A f \in ExtractPaths :
            ContextsOfFile(f) = ReadsOf(f, LAMBDA st : st.readable)

\* An extraction of two files: one that cannot be read and one that is read
\* and does not parse.
C14_Witness ==
    /\ pc = "extracted"
    /\ Len(selected) = 2
    /\ \E f, g \in 1..2 :
          /\ ~reads[f].readable
          /\ reads[g].readable /\ ~reads[g].parses
    /\ Len(codeContext) = 1

\* The words that stand between "export" and the name an export statement
\* declares.
DeclarationKeywords == {"default", "async", "function", "class", "const", "let", "var"}

RECURSIVE DeclaredNameAt(_, _)
\* The first word at or after position i of a line that is not a declaration
\* keyword ("" when there is none).
DeclaredNameAt(line, i) ==
    LET j    == RunEnd(line, i, WhitespaceChars) + 1
        k    == RunEnd(line, j, WordChars)
        word == SubSeq(line, j, k)
    IN  IF k < j THEN ""
        ELSE IF word \in DeclarationKeywords THEN DeclaredNameAt(line, k + 1)
        ELSE word

\* The names the export statements of a text declare, one statement a line.
DeclaredExports(text) ==
    LET lines == Split(text, "\n")
    IN  {DeclaredNameAt(lines[k], 7) :
            k \in {n \in 1..Len(lines) : StartsWithAt(lines[n], "export ", 1)}} \ {""}

NamesOf(list) == {list[k] : k \in 1..Len(list)}

\* What the read behind a CodeContext gave.
ReadOf(c) ==
    reads[CHOOSE k \in 1..Len(reads) :
              /\ selected[k] = c.file
              /\ ProcessFile(c.file, reads[k]) = <<c>>]

\* C21: when strict parsing of a file succeeds, the exportedItems of its
\* CodeContext and the Exports line of its summary hold the names the file
\* exports; and the regex fallback only degrades precision: a name it reports
\* for an export statement that is a name the file exports is one the strict
\* path reports as well.
C21_StrictExportsComplete ==
    pc = "extracted" =>
        \A k \in 1..Len(codeContext) :
            LET c  == codeContext[k]
                st == ReadOf(c)
            IN  /\ st.parses =>
                      /\ DeclaredExports(st.text) \subseteq NamesOf(c.exportedItems)
                      /\ DeclaredExports(st.text) # {} => Includes(c.summary, "\nExports: ")
                /\ st.parses =>
                      (NamesOf(FallbackExports(st.text)) \cap DeclaredExports(st.text))
                          \subseteq NamesOf(c.exportedItems)

(***************************************************************************)
(* Test Writer: _writeTestFiles.                                           *)
(***************************************************************************)

RECURSIVE NormalizeSegments(_, _, _, _)
\* The segments of a path with "", "." and ".." resolved (posix
\* normalizeString): ".." removes the segment before it, is kept at the
\* front of a relative path and is dropped at the root of an absolute one.
NormalizeSegments(segs, i, res, isAbsolute) ==
    IF i > Len(segs) THEN res
    ELSE LET g == segs[i]
         IN  IF g = "" \/ g = "." THEN NormalizeSegments(segs, i + 1, res, isAbsolute)
             ELSE IF g # ".." THEN NormalizeSegments(segs, i + 1, Append(res, g), isAbsolute)
             ELSE IF res # <<>> /\ res[Len(res)] # ".."
                  THEN NormalizeSegments(segs, i + 1, SubSeq(res, 1, Len(res) - 1), isAbsolute)
             ELSE IF isAbsolute THEN NormalizeSegments(segs, i + 1, res, isAbsolute)
             ELSE NormalizeSegments(segs, i + 1, Append(res, ".."), isAbsolute)

\* path.normalize (posix).
Normalize(p) ==
    IF p = "" THEN "."
    ELSE LET isAbsolute == CharAt(p, 1) = "/"
             trailing   == CharAt(p, Len(p)) = "/"
             body       == JoinWith(NormalizeSegments(Split(p, "/"), 1, <<>>, isAbsolute), "/")
             relative   == IF body = "" /\ ~isAbsolute THEN "." ELSE body
             closed     == IF relative # "" /\ trailing THEN relative \o "/" ELSE relative
         IN  IF isAbsolute THEN "/" \o closed ELSE closed

\* path.join(dir, name) (posix), both arguments non-empty.
PathJoin(dir, name) == Normalize(dir \o "/" \o name)

\* path.dirname (posix) of a normalized path.
Dirname(p) ==
    LET q    == StripTrailingSlashes(p)
        last == LastIndexOf(q, "/")
    IN  IF last = 0 THEN "."
        ELSE IF last = 1 THEN "/"
        ELSE SubSeq(q, 1, last - 1)

\* The error fs.writeFile rejects with.
WriteError(path) ==
    [isError |-> TRUE, status |-> 0,
     message |-> "EACCES: permission denied, open '" \o path \o "'"]

\* What fs.writeFile(outputPath, content) leaves on disk.
FileOnDisk(outputPath, text) ==
    [path |-> outputPath, dir |-> Dirname(outputPath), content |-> text]

MaxArtifacts == 3

DEFAULT_OUTPUT_DIR == "./playwright-tests"

OutputDirs == {DEFAULT_OUTPUT_DIR, "/w/out/"}

\* Filenames the marker pattern [\w\-\.\/]+ captures.
WriteNames ==
    {"login.spec.ts", "e2e/cart.spec.ts", "./a//b.spec.ts", "/abs.spec.ts",
     "../outside.spec.ts", "e2e/../../up.spec.ts"}

NamedBlock(name) ==
    [kind |-> "block", tag |-> "typescript", marked |-> TRUE,
     name |-> name, body |-> "test('t', f);\n"]

\* The responses of up to maxBlocks marked blocks, each after a line of text.
NamedSegmentLists(maxBlocks) ==
    UNION {{[k \in 1..(2 * n) |->
                IF k % 2 = 1 THEN TextOf("Next:\n") ELSE NamedBlock(names[k \div 2])]
             : names \in [1..n -> WriteNames]} : n \in 0..maxBlocks}

\* The disks of a run: every write succeeds, or the write of one path fails.
Disks(dir, names) == {{}} \cup {{PathJoin(dir, n)} : n \in names}

InitWrite ==
    /\ pc = "responded"
    /\ segments \in NamedSegmentLists(MaxArtifacts)
    /\ aiResponse = Render(segments)
    /\ testFiles = <<>>
    /\ outputDir \in OutputDirs
    /\ unwritable \in Disks(outputDir, WriteNames)
    /\ ensured = <<>>
    /\ PrioritizerIdle /\ ChunkerIdle /\ SanitizerIdle /\ GeneratorIdle
    /\ ExtractorIdle /\ AnalyzerIdle
    /\ PromptIdle /\ EmbedderIdle

\* generateTests' fourth step on the artifacts parsed: _writeTestFiles up to
\* its first await, fs.ensureDir(this.config.outputDir).
WriteArtifacts ==
    /\ pc = "parsed"
    /\ pc' = "ensuringOutputDir"
    /\ UNCHANGED <<prioritizerVars, chunkerVars, sanitizerVars, parserVars,
                   testFiles, generatorVars, extractorVars, writerVars,
                   analyzerVars, promptVars, embedderVars>>

\* await fs.ensureDir(this.config.outputDir) settles: the loop starts and
\* awaits fs.ensureDir for the first artifact, or the method returns.
OutputDirEnsured ==
    /\ pc = "ensuringOutputDir"
    /\ ensured' = Append(ensured, outputDir)
    /\ pc' = IF testFiles = <<>> THEN "done" ELSE "ensuringDir"
    /\ UNCHANGED <<prioritizerVars, chunkerVars, sanitizerVars, parserVars,
                   testFiles, generatorVars, extractorVars, outputDir, unwritable,
                   analyzerVars, promptVars, embedderVars>>

\* await fs.ensureDir(path.dirname(outputPath)) settles: fs.writeFile is
\* awaited for the artifact after the ones written.
FileDirEnsured ==
    /\ pc = "ensuringDir"
    /\ LET outputPath == PathJoin(outputDir, testFiles[Len(written) + 1].filename)
       IN  ensured' = Append(ensured, Dirname(outputPath))
    /\ pc' = "writing"
    /\ UNCHANGED <<prioritizerVars, chunkerVars, sanitizerVars, parserVars,
                   testFiles, generatorVars, extractorVars, outputDir, unwritable,
                   analyzerVars, promptVars, embedderVars>>

\* await fs.writeFile(outputPath, testFile.content) settles: it rejects and
\* so do _writeTestFiles and generateTests (no try block surrounds a write),
\* or the file is on disk and the loop goes on or ends.
FileWritten ==
    /\ pc = "writing"
    /\ LET i          == Len(written) + 1
           outputPath == PathJoin(outputDir, testFiles[i].filename)
       IN  IF outputPath \in unwritable
           THEN /\ thrown' = WriteError(outputPath)
                /\ pc' = "writeFailed"
                /\ UNCHANGED written
           ELSE /\ written' = Append(written, FileOnDisk(outputPath, testFiles[i].content))
                /\ pc' = IF i = Len(testFiles) THEN "done" ELSE "ensuringDir"
                /\ UNCHANGED thrown
    /\ UNCHANGED <<prioritizerVars, chunkerVars, sanitizerVars, parserVars,
                   testFiles, chunkIndex, requests, outcome, answers,
                   extractorVars, writerVars, analyzerVars,
                   promptVars, embedderVars>>

NextWrite ==
    \/ ParseResponse
    \/ WriteArtifacts
    \/ OutputDirEnsured
    \/ FileDirEnsured
    \/ FileWritten

SpecWrite == InitWrite /\ [][NextWrite]_vars

(***************************************************************************)
(* Claims about the Test Writer (under SpecWrite).                         *)
(***************************************************************************)

WasWritten(artifact) ==
    \E k \in 1..Len(written) :
        /\ written[k].path = PathJoin(outputDir, artifact.filename)
        /\ written[k].content = artifact.content

\* C15: writing is independent per artifact: when the write of one artifact
\* fails, every other artifact of the list is still written, and the failure
\* is reported.
C15_WritesIndependent ==
    pc \in {"done", "writeFailed"} =>
        /\ \A k \in 1..Len(testFiles) :
              PathJoin(outputDir, testFiles[k].filename) \notin unwritable
                  => WasWritten(testFiles[k])
        /\ (\E k \in 1..Len(testFiles) :
                PathJoin(outputDir, testFiles[k].filename) \in unwritable)
              => thrown.isError

\* Whether a normalized path lies below a directory.
IsInside(path, dir) ==
    LET d == StripTrailingSlashes(Normalize(dir))
    IN  StartsWithAt(path, d \o "/", 1) /\ Len(path) > Len(d) + 1

\* C16: every artifact is written under the configured output directory,
\* whatever filename the parser captured.
C16_WrittenInsideOutputDir ==
    \A k \in 1..Len(written) : IsInside(written[k].path, outputDir)


(***************************************************************************)
(* Prompt Builder: _createUserPrompt.                                      *)
(***************************************************************************)

\* file.file.split('/').slice(-3).join('/'): the last three segments of a path.
RelativePath(file) ==
    LET parts == Split(file, "/")
    IN  JoinWith(Slice(parts, -3, Len(parts)), "/")

RECURSIVE SummariesText(_)
\* chunk.forEach(file => prompt += `${file.summary}\n`).
SummariesText(chunk) ==
    IF chunk = <<>> THEN ""
    ELSE chunk[1].summary \o "\n" \o SummariesText(Tail(chunk))

\* A selection that takes every file of the chunk.
priorityFilesAll(chunk) == chunk

\* priorityFiles: the chunk's UI components, five at most; without any, the
\* first three files of the chunk.
priorityFiles(chunk) ==
    LET uiFirst == Slice(SelectSeq(chunk, LAMBDA file : _isUIComponent(file.file)), 0, 5)
    IN  IF Len(uiFirst) = 0 THEN Slice(chunk, 0, 3) ELSE uiFirst

RECURSIVE DetailsText(_)
\* priorityFiles.forEach(file => prompt += `==== FILE: ... ====\n\n...\n\n`).
DetailsText(files) ==
    IF files = <<>> THEN ""
    ELSE "==== FILE: " \o RelativePath(files[1].file) \o " ====\n\n"
            \o files[1].content \o "\n\n" \o DetailsText(Tail(files))

PromptOverview(index, totalChunks) ==
    "I'm providing code from chunk " \o NatStr(index + 1) \o "/" \o NatStr(totalChunks)
        \o " of my application. Please generate Playwright tests for these files:\n\n"

PromptDetailsHeading == "\n\nDetailed code for high-priority files:\n\n"

PromptInstructions ==
    "\nPlease generate Playwright tests for the functionality in these files. Tests should:\n"
        \o "1. Focus on critical user interactions\n"
        \o "2. Verify expected behaviors and UI states\n"
        \o "3. Include appropriate assertions\n"
        \o "4. Use proper Playwright best practices\n\n"
        \o "Each test should be in a separate file with an appropriate name based on the component/functionality being tested."

\* _createUserPrompt(chunk, chunkIndex, totalChunks).
_createUserPrompt(chunk, index, totalChunks) ==
    PromptOverview(index, totalChunks)
        \o SummariesText(chunk)
        \o PromptDetailsHeading
        \o DetailsText(priorityFiles(chunk))
        \o PromptInstructions

(***************************************************************************)
(* Generation loop: generateTests from its third step on.  The loop issues *)
(* one request per chunk and awaits the client's answer before it goes on. *)
(***************************************************************************)

\* The message the client library gives an error of an HTTP status: the
\* status, a blank and the service's text.
APIErrorMessage(status, text) == NatStr(status) \o " " \o text

RATE_LIMIT_STATUS == 429

\* What client.chat.completions.create can answer: a completion whose
\* choices[0].message.content is a text (empty or null: ""), a completion
\* without choices, or a rejection with an error of the client library.
ContentOutcome(text) == [kind |-> "content", status |-> 200, text |-> text]

NoChoicesOutcome == [kind |-> "noChoices", status |-> 200, text |-> ""]

ErrorOutcome(status, text) == [kind |-> "apiError", status |-> status, text |-> text]

\* The answers to the request of chunk i.
ClientOutcomes(i) ==
    {ContentOutcome(""),
     ContentOutcome("These files have no user interface to test."),
     ContentOutcome(Render(<<TextOf("Here is the test:\n"),
                             BlockOf(i + 1, "typescript", TRUE)>>)),
     NoChoicesOutcome,
     ErrorOutcome(RATE_LIMIT_STATUS, "Rate limit reached for requests"),
     ErrorOutcome(500, "The server had an error while processing your request"),
     ErrorOutcome(400, "Your messages resulted in 14290 tokens")}

\* The error the try block of chunk i ends with, for an answer that makes it
\* throw: the client's rejection, or the TypeError of reading choices[0].message.
ErrorOf(o) ==
    IF o.kind = "apiError"
    THEN [isError |-> TRUE, status |-> o.status,
          message |-> APIErrorMessage(o.status, o.text)]
    ELSE [isError |-> TRUE, status |-> 0,
          message |-> "Cannot read properties of undefined (reading 'message')"]

Throws(o) == o.kind \in {"apiError", "noChoices"}

\* A catch block that rethrows nothing.
RethrowsNothing(error) == FALSE

\* error instanceof Error && error.message.includes('429').
Rethrows(error) == error.isError /\ Includes(error.message, "429")

MaxGenContexts == 3

GenMaxTokens == 1

\* A context is small, or fills the budget of a chunk on its own.
GenSizes == {1, targetSizeOf(GenMaxTokens)}

\* The CodeContext of the k-th file of a generation run: a file of size
\* characters that sanitizing leaves as it is, with the summary _analyzeFile
\* gives it.
GenContextOf(k, size) ==
    LET text == SubSeq("k=1;f(k);g(k);h(k);", 1, size)
    IN  [summary |-> _analyzeFile(ContextOf(k, size).file, text, TRUE).summary,
         exportedItems |-> <<>>,
         content |-> _sanitizeContent(text)] @@ ContextOf(k, size)

\* The context lists of a generation run.
GenContextLists(maxLength) ==
    UNION {{[k \in 1..n |-> GenContextOf(k, sizes[k])] : sizes \in [1..n -> GenSizes]}
            : n \in 0..maxLength}

InitGenerate ==
    /\ pc = "extracted"
    /\ maxTokensPerRequest = GenMaxTokens
    /\ codeContext \in GenContextLists(MaxGenContexts)
    /\ chunks = <<>>
    /\ outputDir = DEFAULT_OUTPUT_DIR
    /\ unwritable \in Disks(outputDir, {BlockName(1)})
    /\ ensured = <<>>
    /\ PrioritizerIdle /\ SanitizerIdle /\ ParserIdle /\ GeneratorIdle
    /\ ExtractorIdle /\ AnalyzerIdle
    /\ PromptIdle /\ EmbedderIdle

\* _generateTestsWithAI up to its loop: testFiles = [], chunks = _chunkCodeContext(...).
StartGeneration ==
    /\ pc = "extracted"
    /\ pc' = "loop"
    /\ chunks' = _chunkCodeContext(codeContext, maxTokensPerRequest)
    /\ testFiles' = <<>>
    /\ chunkIndex' = 0
    /\ UNCHANGED <<prioritizerVars, maxTokensPerRequest, codeContext,
                   sanitizerVars, parserVars, requests, outcome, answers, thrown, written,
                   extractorVars, writerVars, analyzerVars,
                   promptVars, embedderVars>>

\* A push that puts the tests of a chunk before those of the earlier chunks.
PushTestsFirst(files, generatedTests) == generatedTests \o files

\* testFiles.push(...generatedTests).
PushTests(files, generatedTests) == files \o generatedTests

\* One iteration up to its await: the prompts are made and the request is sent.
IssueRequest ==
    /\ pc = "loop"
    /\ chunkIndex < Len(chunks)
    /\ pc' = "awaiting"
    /\ userPrompt' = _createUserPrompt(chunks[chunkIndex + 1], chunkIndex, Len(chunks))
    /\ requests' = Append(requests, chunkIndex)
    /\ UNCHANGED <<prioritizerVars, chunkerVars, sanitizerVars, parserVars,
                   testFiles, chunkIndex, outcome, answers, thrown, written,
                   extractorVars, writerVars, analyzerVars, embedderVars>>

\* The rest of the iteration, from the client's answer o on.
CompleteRequest(o) ==
    /\ pc = "awaiting"
    /\ outcome' = o
    /\ answers' = Append(answers, o)
    /\ IF Throws(o) /\ Rethrows(ErrorOf(o))
       THEN \* throw error: _generateTestsWithAI and generateTests reject with it
            /\ pc' = "failed"
            /\ thrown' = ErrorOf(o)
            /\ UNCHANGED <<testFiles, chunkIndex>>
       ELSE \* the error is logged, or the content is empty (continue), or
            \* the parsed tests are pushed; then i++
            /\ pc' = "loop"
            /\ chunkIndex' = chunkIndex + 1
            /\ testFiles' = IF Throws(o) \/ o.text = "" THEN testFiles
                            ELSE PushTests(testFiles, _parseGeneratedTests(o.text))
            /\ UNCHANGED thrown
    /\ UNCHANGED <<prioritizerVars, chunkerVars, sanitizerVars, parserVars,
                   requests, written, extractorVars, writerVars, analyzerVars,
                   promptVars, embedderVars>>

Respond == \E o \in ClientOutcomes(chunkIndex) : CompleteRequest(o)

\* The loop is over: return testFiles, which settles the promise
\* generateTests awaits.
ReturnTests ==
    /\ pc = "loop"
    /\ chunkIndex >= Len(chunks)
    /\ pc' = "generated"
    /\ UNCHANGED <<prioritizerVars, chunkerVars, sanitizerVars, parserVars,
                   testFiles, generatorVars, extractorVars, writerVars,
                   analyzerVars, promptVars, embedderVars>>

\* generateTests' fourth step: _writeTestFiles up to its first await.
WriteTestFiles ==
    /\ pc = "generated"
    /\ pc' = "ensuringOutputDir"
    /\ UNCHANGED <<prioritizerVars, chunkerVars, sanitizerVars, parserVars,
                   testFiles, generatorVars, extractorVars, writerVars,
                   analyzerVars, promptVars, embedderVars>>

NextGenerate ==
    \/ StartGeneration
    \/ IssueRequest
    \/ Respond
    \/ ReturnTests
    \/ WriteTestFiles
    \/ OutputDirEnsured
    \/ FileDirEnsured
    \/ FileWritten

SpecGenerate == InitGenerate /\ [][NextGenerate]_vars

(***************************************************************************)
(* Claims about the generation loop (under SpecGenerate).                  *)
(***************************************************************************)

\* The positions of generateTests once _generateTestsWithAI has returned.
AfterGeneration ==
    {"generated", "ensuringOutputDir", "ensuringDir", "writing", "done", "writeFailed"}

\* The client's last answer was a rate-limit error.
RateLimited == outcome.kind = "apiError" /\ outcome.status = 429

\* C10: when the client fails with a rate-limit error on chunk i, generateTests
\* rejects with that error and no request is issued for any chunk after i.
C10_RateLimitIsFatal ==
    RateLimited =>
        /\ pc = "failed"
        /\ thrown.isError
        /\ thrown.status = 429
        /\ Len(requests) = chunkIndex + 1
        /\ requests[Len(requests)] = chunkIndex
        /\ written = <<>>

\* A run that is rate-limited on its second chunk, after the first chunk gave
\* an artifact and with a third chunk that is never requested.
C10_Witness ==
    /\ RateLimited
    /\ pc = "failed"
    /\ chunkIndex = 1
    /\ Len(chunks) = 3
    /\ Len(testFiles) = 1
    /\ requests = <<0, 1>>

\* The client's last answer was a failure of another kind than a rate limit.
OtherFailure(o) == Throws(o) /\ ~(o.kind = "apiError" /\ o.status = RATE_LIMIT_STATUS)

RECURSIVE ArtifactsOfAnswers(_)
\* The artifacts of the chunks that succeeded, in chunk order.
ArtifactsOfAnswers(as) ==
    IF as = <<>> THEN <<>>
    ELSE (IF Throws(as[1]) \/ as[1].text = "" THEN <<>>
          ELSE _parseGeneratedTests(as[1].text))
         \o ArtifactsOfAnswers(Tail(as))

\* C11: every per-chunk failure that is not a rate-limit failure is caught:
\* generateTests does not fail because of it, the loop goes on to request every
\* later chunk, and the artifacts returned are those of all the chunks that
\* succeeded, in chunk order.
C11_OtherFailuresRecovered ==
    /\ (pc = "failed" => ~OtherFailure(outcome))
    /\ (pc = "loop" /\ answers # <<>> /\ OtherFailure(outcome)
            => chunkIndex = Len(answers) /\ testFiles = ArtifactsOfAnswers(answers))
    /\ (pc \in {"generated", "done"} /\ (\E k \in 1..Len(answers) : OtherFailure(answers[k]))
            => /\ requests = [k \in 1..Len(chunks) |-> k - 1]
               /\ testFiles = ArtifactsOfAnswers(answers))

\* The requests that were issued and have no answer yet.
InFlight == Len(requests) - Len(answers)

\* C23: the generation requests are issued one at a time and in chunk order:
\* at most one request is in flight, the request of a chunk is issued only
\* once every earlier chunk's request has completed (with a success or with a
\* failure), and the artifact list returned is the concatenation, in chunk
\* order, of the artifacts parsed from each chunk's answer.
C23_RequestsSequentialInOrder ==
    /\ InFlight \in {0, 1}
    /\ InFlight = 1 <=> pc = "awaiting"
    /\ Len(requests) <= Len(chunks)
    /\ \A k \in 1..Len(requests) : requests[k] = k - 1
    /\ pc \in {"loop"} \cup AfterGeneration =>
            /\ chunkIndex = Len(answers)
            /\ testFiles = ArtifactsOfAnswers(answers)
    /\ pc \in AfterGeneration => Len(answers) = Len(chunks)

\* A finished run of three chunks whose first request failed and whose second
\* and third gave an artifact each, returned in that order.
C23_Witness ==
    /\ pc = "done"
    /\ Len(chunks) = 3
    /\ requests = <<0, 1, 2>>
    /\ Throws(answers[1])
    /\ Len(testFiles) = 2
    /\ testFiles[1] # testFiles[2]
    /\ <<testFiles[1]>> = _parseGeneratedTests(answers[2].text)
    /\ <<testFiles[2]>> = _parseGeneratedTests(answers[3].text)

\* An answer that is a rate-limit error.
IsRateLimit(o) == o.kind = "apiError" /\ o.status = RATE_LIMIT_STATUS

\* C25: artifacts are written to disk only after the generation loop has
\* processed every chunk: when a chunk's request fails with a rate-limit error
\* nothing is written, not even the artifacts parsed from the chunks before
\* it, and generateTests rejects instead of returning an artifact list.
C25_NothingWrittenOnRateLimit ==
    /\ written # <<>> =>
            /\ pc \in AfterGeneration
            /\ Len(answers) = Len(chunks)
            /\ chunkIndex = Len(chunks)
    /\ (\E k \in 1..Len(answers) : IsRateLimit(answers[k])) =>
            /\ written = <<>>
            /\ pc = "failed"
            /\ thrown.isError
            /\ IsRateLimit(answers[Len(answers)])

\* A run that is rate-limited on its third chunk, with the artifacts of the
\* first two chunks parsed and none of them written.
C25_Witness ==
    /\ pc = "failed"
    /\ Len(answers) = 3
    /\ IsRateLimit(answers[3])
    /\ Len(testFiles) = 2
    /\ unwritable = {}
    /\ written = <<>>

(***************************************************************************)
(* The user prompt of a run's first request (SpecPrompt): the contexts of  *)
(* up to MaxChunkFiles files fit in one chunk under the default budget.    *)
(***************************************************************************)

DEFAULT_MAX_TOKENS == 8000

MaxChunkFiles == 7

\* The k-th file of a run: a UI component (by its directory for odd k, by its
\* name for even k) or a file without UI indicator.
PromptPath(k, ui) ==
    IF ~ui THEN "/w/src/lib/util" \o NatStr(k) \o ".ts"
    ELSE IF k % 2 = 1 THEN "/w/src/components/Nav" \o NatStr(k) \o ".tsx"
    ELSE "/w/src/LoginForm" \o NatStr(k) \o ".tsx"

\* Its CodeContext, as _extractCodeContext makes it of a file that parses.
PromptContextOf(k, ui) ==
    LET file == PromptPath(k, ui)
        text == "/* c */\nexport const v" \o NatStr(k) \o " = " \o NatStr(k) \o ";  \n"
        fileInfo == _analyzeFile(file, text, TRUE)
    IN  [file |-> file,
         summary |-> fileInfo.summary,
         exportedItems |-> fileInfo.exportedItems,
         content |-> _sanitizeContent(text),
         size |-> Len(text)]

\* The context lists of one to maxLength files.
PromptContextLists(maxLength) ==
    UNION {{[k \in 1..n |-> PromptContextOf(k, ui[k])] : ui \in [1..n -> BOOLEAN]}
            : n \in 1..maxLength}

InitPrompt ==
    /\ pc = "extracted"
    /\ maxTokensPerRequest = DEFAULT_MAX_TOKENS
    /\ codeContext \in PromptContextLists(MaxChunkFiles)
    /\ chunks = <<>>
    /\ PrioritizerIdle /\ SanitizerIdle /\ ParserIdle /\ GeneratorIdle
    /\ ExtractorIdle /\ WriterIdle /\ AnalyzerIdle
    /\ PromptIdle /\ EmbedderIdle

NextPrompt == StartGeneration \/ IssueRequest

SpecPrompt == InitPrompt /\ [][NextPrompt]_vars

\* The chunk the request in flight was issued for.
RequestedChunk == chunks[chunkIndex + 1]

\* The positions, in the chunk, of the files with a UI indicator.
UIPositions == {k \in 1..Len(RequestedChunk) : _isUIComponent(RequestedChunk[k].file)}

\* The positions of the priority subset: the first five UI-indicator files,
\* or the first three files when the chunk has no UI-indicator file.
PriorityPositions ==
    IF UIPositions = {} THEN {k \in 1..Len(RequestedChunk) : k <= 3}
    ELSE {k \in UIPositions : Cardinality({j \in UIPositions : j < k}) < 5}

\* The filename marker line of the k-th file of the chunk.
MarkerLine(k) == "==== FILE: " \o RelativePath(RequestedChunk[k].file) \o " ====\n"

\* C24: the user prompt of a chunk holds one summary for each context of the
\* chunk, in chunk order, and the full content of a priority subset only: the
\* chunk's UI-indicator files in chunk order, five at most, or, when it has
\* none, its first min(3, length) files.  Each content comes after its
\* filename marker line, and no other file's content or marker is in it.
C24_PromptHoldsPrioritySubset ==
    pc = "awaiting" =>
        /\ IndexOfFrom(userPrompt, "\n\n" \o SummariesText(RequestedChunk) \o "\n\n", 1) > 0
        /\ \A k \in 1..Len(RequestedChunk) :
              LET c == RequestedChunk[k]
              IN  /\ Includes(userPrompt, c.summary \o "\n")
                  /\ IF k \in PriorityPositions
                     THEN Includes(userPrompt, MarkerLine(k) \o "\n" \o c.content \o "\n\n")
                     ELSE /\ ~Includes(userPrompt, MarkerLine(k))
                          /\ ~Includes(userPrompt, c.content)
        /\ \A j, k \in PriorityPositions :
              j < k => IndexOfFrom(userPrompt, MarkerLine(j), 1)
                          < IndexOfFrom(userPrompt, MarkerLine(k), 1)
        /\ Cardinality({i \in 1..Len(userPrompt) : StartsWithAt(userPrompt, "==== FILE: ", i)})
              = Cardinality(PriorityPositions)

\* A prompt for a chunk of seven files, six of them UI components: the sixth
\* UI component and the file without indicator are left out.
C24_Witness ==
    /\ pc = "awaiting"
    /\ Len(RequestedChunk) = 7
    /\ Cardinality(UIPositions) = 6
    /\ ~_isUIComponent(RequestedChunk[1].file)
    /\ Cardinality(PriorityPositions) = 5
    /\ ~Includes(userPrompt, RequestedChunk[7].content)
    /\ Includes(userPrompt, RequestedChunk[6].content)

(***************************************************************************)
(* Structural Analyzer (src/src/indexer/structural.ts).  A syntax tree is  *)
(* a node with its kind, its source text and the children getChildren()    *)
(* gives, tokens and syntax lists included; a node of a file is addressed  *)
(* by its path, the child indexes from the SourceFile down.  An optional   *)
(* value is <<>> or <<value>>.                                             *)
(***************************************************************************)

NodeOf(kind, text, children) == [kind |-> kind, text |-> text, children |-> children]

Token(kind, text) == NodeOf(kind, text, <<>>)

Identifier(name) == Token("Identifier", name)

StringLiteral(value) == Token("StringLiteral", "\"" \o value \o "\"")

\* The text of a JSX child: getText() starts at getStart(), and the start of
\* a JsxText is found by skipping the white space it begins with; leading
\* holds what is skipped and text the rest.
JsxText(raw) ==
    LET skipped == RunEnd(raw, 1, WhitespaceChars)
    IN  [kind     |-> "JsxText",
         text     |-> SubSeq(raw, skipped + 1, Len(raw)),
         children |-> <<>>,
         leading  |-> SubSeq(raw, 1, skipped)]

\* The source text of a node from its first character on, the white space a
\* JsxText begins with included.
WrittenText(node) ==
    IF node.kind = "JsxText" THEN node.leading \o node.text ELSE node.text

RECURSIVE TextsOf(_, _)
\* The source texts of a list of nodes, each followed by sep.
TextsOf(nodes, sep) ==
    IF nodes = <<>> THEN "" ELSE WrittenText(nodes[1]) \o sep \o TextsOf(Tail(nodes), sep)

\* The syntax list getChildren() makes of a node array whose members stand
\* sep apart: its text runs from the start of its first member (getText() of
\* that member) to the end of its last.
SyntaxList(nodes, sep) ==
    NodeOf("SyntaxList",
           JoinWith([k \in 1..Len(nodes) |->
                        IF k = 1 THEN nodes[k].text ELSE WrittenText(nodes[k])], sep),
           nodes)

RECURSIVE WithCommas(_)
\* The members of a comma-separated node array and the comma tokens between.
WithCommas(nodes) ==
    IF Len(nodes) <= 1 THEN nodes
    ELSE <<nodes[1], Token("CommaToken", ",")>> \o WithCommas(Tail(nodes))

\* The syntax list of a comma-separated node array.
CommaList(nodes) ==
    NodeOf("SyntaxList", JoinWith([k \in 1..Len(nodes) |-> nodes[k].text], ", "),
           WithCommas(nodes))

\* {expression}
JsxExpression(expression) ==
    NodeOf("JsxExpression", "{" \o expression.text \o "}",
           <<Token("OpenBraceToken", "{"), expression, Token("CloseBraceToken", "}")>>)

\* name, name="value" or name={expression}: init is <<>> or <<initializer>>.
JsxAttribute(name, init) ==
    NodeOf("JsxAttribute",
           name \o (IF init = <<>> THEN "" ELSE "=" \o init[1].text),
           <<Identifier(name)>>
                \o (IF init = <<>> THEN <<>> ELSE <<Token("EqualsToken", "=")>> \o init))

JsxAttributes(attrs) ==
    NodeOf("JsxAttributes", SyntaxList(attrs, " ").text, <<SyntaxList(attrs, " ")>>)

OpenTagText(tag, attrs) ==
    "<" \o tag \o (IF attrs = <<>> THEN "" ELSE " " \o JsxAttributes(attrs).text)

\* <tag attrs />
JsxSelfClosingElement(tag, attrs) ==
    NodeOf("JsxSelfClosingElement", OpenTagText(tag, attrs) \o " />",
           <<Token("LessThanToken", "<"), Identifier(tag), JsxAttributes(attrs),
             Token("SlashToken", "/"), Token("GreaterThanToken", ">")>>)

JsxOpeningElement(tag, attrs) ==
    NodeOf("JsxOpeningElement", OpenTagText(tag, attrs) \o ">",
           <<Token("LessThanToken", "<"), Identifier(tag), JsxAttributes(attrs),
             Token("GreaterThanToken", ">")>>)

JsxClosingElement(tag) ==
    NodeOf("JsxClosingElement", "</" \o tag \o ">",
           <<Token("LessThanToken", "<"), Token("SlashToken", "/"), Identifier(tag),
             Token("GreaterThanToken", ">")>>)

\* <tag attrs>kids</tag>
JsxElement(tag, attrs, kids) ==
    NodeOf("JsxElement",
           JsxOpeningElement(tag, attrs).text \o TextsOf(kids, "")
                \o JsxClosingElement(tag).text,
           <<JsxOpeningElement(tag, attrs), SyntaxList(kids, ""), JsxClosingElement(tag)>>)

\* callee(arguments)
CallExpression(callee, arguments) ==
    NodeOf("CallExpression",
           callee \o "(" \o CommaList(arguments).text \o ")",
           <<Identifier(callee), Token("OpenParenToken", "("), CommaList(arguments),
             Token("CloseParenToken", ")")>>)

\* const [value, setter] = initializer;
StateDeclaration(value, setter, initializer) ==
    LET elements    == CommaList(<<NodeOf("BindingElement", value, <<Identifier(value)>>),
                                   NodeOf("BindingElement", setter, <<Identifier(setter)>>)>>)
        pattern     == NodeOf("ArrayBindingPattern", "[" \o elements.text \o "]",
                              <<Token("OpenBracketToken", "["), elements,
                                Token("CloseBracketToken", "]")>>)
        declaration == NodeOf("VariableDeclaration",
                              pattern.text \o " = " \o initializer.text,
                              <<pattern, Token("EqualsToken", "="), initializer>>)
        list        == NodeOf("VariableDeclarationList", "const " \o declaration.text,
                              <<Token("ConstKeyword", "const"), CommaList(<<declaration>>)>>)
    IN  NodeOf("VariableStatement", list.text \o ";",
               <<list, Token("SemicolonToken", ";")>>)

\* () => body
ArrowFunction(body) ==
    NodeOf("ArrowFunction", "() => " \o body.text,
           <<Token("OpenParenToken", "("), CommaList(<<>>), Token("CloseParenToken", ")"),
             Token("EqualsGreaterThanToken", "=>"), body>>)

\* { statements }
Block(statements) ==
    NodeOf("Block", "{ " \o TextsOf(statements, " ") \o "}",
           <<Token("OpenBraceToken", "{"), SyntaxList(statements, " "),
             Token("CloseBraceToken", "}")>>)

\* return expression;
ReturnStatement(expression) ==
    NodeOf("ReturnStatement", "return " \o expression.text \o ";",
           <<Token("ReturnKeyword", "return"), expression, Token("SemicolonToken", ";")>>)

\* function name() { statements }
FunctionDeclaration(name, statements) ==
    NodeOf("FunctionDeclaration",
           "function " \o name \o "() " \o Block(statements).text,
           <<Token("FunctionKeyword", "function"), Identifier(name),
             Token("OpenParenToken", "("), CommaList(<<>>), Token("CloseParenToken", ")"),
             Block(statements)>>)

\* import { name } from "module";
ImportDeclaration(name, module) ==
    LET specifier == NodeOf("ImportSpecifier", name, <<Identifier(name)>>)
        named     == NodeOf("NamedImports", "{ " \o name \o " }",
                            <<Token("OpenBraceToken", "{"), CommaList(<<specifier>>),
                              Token("CloseBraceToken", "}")>>)
        clause    == NodeOf("ImportClause", named.text, <<named>>)
    IN  NodeOf("ImportDeclaration",
               "import " \o clause.text \o " from " \o StringLiteral(module).text \o ";",
               <<Token("ImportKeyword", "import"), clause, Token("FromKeyword", "from"),
                 StringLiteral(module), Token("SemicolonToken", ";")>>)

\* A source file: the syntax list of its statements and the end-of-file token.
SourceFile(filePath, statements) ==
    [kind |-> "SourceFile", text |-> SyntaxList(statements, "\n").text,
     children |-> <<SyntaxList(statements, "\n"), Token("EndOfFileToken", "")>>,
     filePath |-> filePath]

RECURSIVE NodeAt(_, _)
\* The node of a tree at a path.
NodeAt(root, path) ==
    IF path = <<>> THEN root ELSE NodeAt(root.children[path[1]], Tail(path))

RECURSIVE DescendantsFrom(_, _)
\* The nodes below a node from its i-th child on, in document order.
DescendantsFrom(node, i) ==
    IF i > Len(node.children) THEN <<>>
    ELSE <<node.children[i]>> \o DescendantsFrom(node.children[i], 1)
            \o DescendantsFrom(node, i + 1)

\* node.getDescendants(): the nodes below a node, depth first.
getDescendants(node) == DescendantsFrom(node, 1)

RECURSIVE DescendantPathsFrom(_, _, _)
\* The paths of the nodes of getDescendants(node), node being at path.
DescendantPathsFrom(node, path, i) ==
    IF i > Len(node.children) THEN <<>>
    ELSE <<Append(path, i)>> \o DescendantPathsFrom(node.children[i], Append(path, i), 1)
            \o DescendantPathsFrom(node, path, i + 1)

DescendantPaths(node, path) == DescendantPathsFrom(node, path, 1)

\* The paths of the ancestors of the node of root at path, nearest first.  A
\* syntax list is no ancestor: the parent of its members is the node that
\* holds the list.
AncestorPaths(root, path) ==
    SelectSeq([k \in 1..Len(path) |-> SubSeq(path, 1, Len(path) - k)],
              LAMBDA a : NodeAt(root, a).kind # "SyntaxList")

IsElementKind(kind) == kind \in {"JsxElement", "JsxSelfClosingElement"}

RECURSIVE StripChars(_, _)
\* s.replace(/[cs]/g, ''): s without the characters of cs.
StripChars(s, cs) ==
    IF s = "" THEN ""
    ELSE (IF SubSeq(s, 1, 1) \in cs THEN "" ELSE SubSeq(s, 1, 1))
            \o StripChars(SubSeq(s, 2, Len(s)), cs)

Quotes == {"'", "\""}

\* attr.getFirstChild()?.getText(): the name of a JsxAttribute.
AttributeName(attr) == attr.children[1].text

\* attr.getLastChild()?.getText(): the initializer of a JsxAttribute, or its
\* name when it has none.
AttributeValueText(attr) == attr.children[Len(attr.children)].text

\* The JsxAttribute nodes below a node, in document order.
AttributesBelow(node) ==
    SelectSeq(getDescendants(node), LAMBDA d : d.kind = "JsxAttribute")

\* node.getDescendants().find(d => d.getKind() === SyntaxKind.JsxAttribute &&
\* d.getFirstChild()?.getText() === name): <<>> or the first such attribute.
FindAttribute(attrs, name) ==
    LET found == SelectSeq(attrs, LAMBDA d : AttributeName(d) = name)
    IN  IF found = <<>> THEN <<>> ELSE <<found[1]>>

\* The value a selector takes from an attribute search.
SelectorOf(found) ==
    IF found = <<>> THEN <<>> ELSE <<StripChars(AttributeValueText(found[1]), Quotes)>>

\* node.getFirstChild()?.getNextSibling()?.getText(): the children of a
\* JsxElement (the syntax list after its opening element), the tag name of a
\* self-closing element (the node after its "<" token).
SecondChildText(node) ==
    IF Len(node.children) >= 2 THEN node.children[2].text ELSE ""

\* Whether a node has, below it, an id attribute of a value.
HasIdBelow(node, labelId) ==
    \E k \in 1..Len(AttributesBelow(node)) :
        LET attr == AttributesBelow(node)[k]
        IN  /\ AttributeName(attr) = "id"
            /\ StripChars(AttributeValueText(attr), Quotes) = labelId

\* The label an aria-labelledby reference gives: the first JsxText of the
\* nearest ancestor that holds the id, trimmed (undefined without a JsxText).
AssociatedLabel(holder) ==
    LET texts == SelectSeq(getDescendants(holder), LAMBDA d : d.kind = "JsxText")
    IN  IF texts = <<>> THEN <<>> ELSE <<Trim(texts[1].text)>>

\* extractSelectors(node) for the element of root at path, attrs being the
\* JsxAttribute nodes below it.
extractSelectors(root, path, attrs) ==
    LET node      == NodeAt(root, path)
        ariaLabel == SelectorOf(FindAttribute(attrs, "aria-label"))
        labelId   == SelectorOf(FindAttribute(attrs, "aria-labelledby"))
        holders   == IF labelId = <<>> \/ labelId = <<"">> THEN <<>>
                     ELSE SelectSeq(AncestorPaths(root, path),
                                    LAMBDA a : HasIdBelow(NodeAt(root, a), labelId[1]))
        text      == SecondChildText(node)
    IN  [testId |-> SelectorOf(FindAttribute(attrs, "data-testid")),
         name   |-> SelectorOf(FindAttribute(attrs, "name")),
         label  |-> IF holders = <<>> THEN ariaLabel
                    ELSE AssociatedLabel(NodeAt(root, holders[1])),
         role   |-> SelectorOf(FindAttribute(attrs, "role")),
         text   |-> IF text = "" THEN <<>> ELSE <<Trim(text)>>,
         type   |-> SelectorOf(FindAttribute(attrs, "type"))]

\* The tag as analyzeElement writes it: <Name /> for a component (a name
\* that starts with an upper-case letter), <name> otherwise.
TagName(node) ==
    IF node.kind = "JsxElement" THEN node.children[1].children[2].text
    ELSE node.children[2].text

IsComponentTag(rawTag) ==
    LET tag == Trim(Split(rawTag, "\n")[1])
    IN  tag # "" /\ Includes(UpperLetters, SubSeq(tag, 1, 1))

FormatTag(rawTag) ==
    LET tag == Trim(Split(rawTag, "\n")[1])
    IN  IF IsComponentTag(rawTag) THEN "<" \o tag \o " />"
        ELSE "<" \o ToLowerCase(tag) \o ">"

\* props: the value of each attribute below the node that has a name and a
\* non-empty value once quotes and braces are removed; the last one wins.
PropsOf(attrs) ==
    LET valued == SelectSeq(attrs, LAMBDA a :
                      /\ AttributeName(a) # ""
                      /\ StripChars(AttributeValueText(a), Quotes \cup {"{", "}"}) # "")
        names  == {AttributeName(valued[k]) : k \in 1..Len(valued)}
    IN  [n \in names |->
            LET last == CHOOSE k \in 1..Len(valued) :
                            /\ AttributeName(valued[k]) = n
                            /\ \A j \in (k + 1)..Len(valued) : AttributeName(valued[j]) # n
            IN  StripChars(AttributeValueText(valued[last]), Quotes \cup {"{", "}"})]

HasProp(props, name) == name \in DOMAIN props

\* hasEvents: attributes.some(attr => ...), false without attributes.
HasEvents(attrs, props, tag, isComponent) ==
    \E k \in 1..Len(attrs) :
        \/ StartsWithAt(AttributeName(attrs[k]), "on", 1)
        \/ HasProp(props, "onClick")
        \/ HasProp(props, "href")
        \/ Includes(ToLowerCase(tag), "button")
        \/ (isComponent /\ (\/ Includes(ToLowerCase(tag), "link")
                            \/ Includes(ToLowerCase(tag), "button")
                            \/ Includes(ToLowerCase(tag), "menu")))

\* The event names of the attributes that start with "on": onClick gives click.
EventsOf(attrs) ==
    LET handlers == SelectSeq(attrs, LAMBDA a : StartsWithAt(AttributeName(a), "on", 1))
    IN  [k \in 1..Len(handlers) |->
            ToLowerCase(SubSeq(AttributeName(handlers[k]), 3, Len(AttributeName(handlers[k]))))]

\* events[0] || (hasEvents ? 'interaction' : undefined).
EventTypeOf(events, hasEvents) ==
    IF events # <<>> /\ events[1] # "" THEN <<events[1]>>
    ELSE IF hasEvents THEN <<"interaction">> ELSE <<>>

RECURSIVE NatOf(_)
\* The number a string of decimal digits writes.
NatOf(digits) ==
    IF digits = "" THEN 0
    ELSE 10 * NatOf(SubSeq(digits, 1, Len(digits) - 1))
            + (IndexOfFrom(DecimalDigits, SubSeq(digits, Len(digits), Len(digits)), 1) - 1)

\* parseInt(value || '0', 10), written in decimal: the digits after leading
\* whitespace and a sign, NaN when there is none.
ParseInt(value) ==
    LET s        == TrimStart(IF value = "" THEN "0" ELSE value)
        signed   == CharAt(s, 1) \in {"-", "+"}
        first    == IF signed THEN 2 ELSE 1
        last     == RunEnd(s, first, {SubSeq(DecimalDigits, k, k) : k \in 1..10})
        n        == NatOf(SubSeq(s, first, last))
    IN  IF last < first THEN "NaN"
        ELSE (IF CharAt(s, 1) = "-" /\ n # 0 THEN "-" ELSE "") \o NatStr(n)

validationAttrs == <<"minLength", "maxLength", "pattern">>

\* The rule extractValidation pushes for one of validationAttrs, if the node
\* has the attribute below it.
ValidationRuleOf(attrs, attr) ==
    LET found == FindAttribute(attrs, attr)
        value == StripChars(AttributeValueText(found[1]), Quotes)
    IN  IF found = <<>> THEN <<>>
        ELSE <<[type  |-> IF StartsWithAt(ToLowerCase(attr), "min", 1) THEN "min"
                          ELSE IF StartsWithAt(ToLowerCase(attr), "max", 1) THEN "max"
                          ELSE "pattern",
                value |-> IF attr = "pattern" THEN value ELSE ParseInt(value)]>>

\* extractValidation(node).
extractValidation(attrs) ==
    (IF FindAttribute(attrs, "required") # <<>>
     THEN <<[type |-> "required", value |-> ""]>> ELSE <<>>)
        \o ValidationRuleOf(attrs, validationAttrs[1])
        \o ValidationRuleOf(attrs, validationAttrs[2])
        \o ValidationRuleOf(attrs, validationAttrs[3])

\* node.getChildren(): the kinds of the children of an element, tokens and
\* syntax lists included.
ChildKinds(node) == [k \in 1..Len(node.children) |-> node.children[k].kind]

\* The children analyzeElement keeps: those of node.getChildren() that are
\* elements themselves, when the node has more than two children.
MeaningfulChildren(node) ==
    IF Len(ChildKinds(node)) > 2 THEN SelectSeq(ChildKinds(node), IsElementKind) ELSE <<>>

\* analyzeElement(node) for the node of root at path: <<>> (null) or the
\* UIElement.
analyzeElement(root, path) ==
    LET node        == NodeAt(root, path)
        isComponent == IsComponentTag(TagName(node))
        tag         == FormatTag(TagName(node))
        attrs       == AttributesBelow(node)
        props       == PropsOf(attrs)
        hasEvents   == HasEvents(attrs, props, tag, isComponent)
    IN  IF ~IsElementKind(node.kind) THEN <<>>
        ELSE <<[tag        |-> tag,
                type       |-> IF HasProp(props, "type") THEN <<props["type"]>> ELSE <<>>,
                selectors  |-> extractSelectors(root, path, attrs)
                                @@ [props |-> IF DOMAIN props # {} THEN <<props>> ELSE <<>>],
                hasEvents  |-> hasEvents,
                eventType  |-> EventTypeOf(EventsOf(attrs), hasEvents),
                validation |-> IF \/ Includes(tag, "input") \/ Includes(tag, "textarea")
                                  \/ Includes(tag, "select")
                               THEN <<extractValidation(attrs)>> ELSE <<>>,
                children   |-> MeaningfulChildren(node)]>>

RECURSIVE FlattenBetween(_, _, _)
\* The values of the optional values at positions i to j of a list.
FlattenBetween(options, i, j) ==
    IF i > j THEN <<>>
    ELSE IF i = j THEN options[i]
    ELSE FlattenBetween(options, i, (i + j) \div 2)
            \o FlattenBetween(options, (i + j) \div 2 + 1, j)

\* .filter(el => el !== null): the values of a list of optional values.
FlattenOptions(options) == FlattenBetween(options, 1, Len(options))

\* node.getDescendants().map(analyzeElement).filter(el => el !== null) for
\* the node of root at path; analyzeElement is null for every node that is
\* not an element.
ElementsBelow(root, path) ==
    LET nodes == getDescendants(NodeAt(root, path))
        paths == DescendantPaths(NodeAt(root, path), path)
    IN  FlattenOptions([k \in 1..Len(nodes) |->
            IF IsElementKind(nodes[k].kind) THEN analyzeElement(root, paths[k]) ELSE <<>>])

\* The elements of a file.
ElementsOf(root) == ElementsBelow(root, <<>>)

RECURSIVE DescendantsIncludingFrom(_, _, _)
\* The nodes below a node, from its i-th child on, whose text includes t.
\* The text of a node is part of the text of every node above it, so a node
\* whose text does not include t has no such node below it.
DescendantsIncludingFrom(node, t, i) ==
    IF i > Len(node.children) THEN <<>>
    ELSE (IF Includes(node.children[i].text, t)
          THEN <<node.children[i]>> \o DescendantsIncludingFrom(node.children[i], t, 1)
          ELSE <<>>)
            \o DescendantsIncludingFrom(node, t, i + 1)

\* node.getDescendants().filter(d => d.getText().includes(t)).
DescendantsIncluding(node, t) == DescendantsIncludingFrom(node, t, 1)

\* node.getDescendants().filter(d => d.getText().includes('useState')).length.
StateCountOf(root) == Len(DescendantsIncluding(root, "useState"))

RECURSIVE NonQuoteEnd(_, _)
\* The last position of the run of characters other than quotes that starts
\* at i (i - 1 when the character at i is a quote or past the end).
NonQuoteEnd(s, i) ==
    IF i <= Len(s) /\ SubSeq(s, i, i) \notin Quotes THEN NonQuoteEnd(s, i + 1) ELSE i - 1

\* text.match(/['"]\/api\/[^'"]+['"]/)?.[0]: <<>> or the leftmost quoted
\* literal that starts with /api/ and has a character after it.
ApiLiteral(s) ==
    LET hits == {i \in 1..Len(s) :
                    /\ CharAt(s, i) \in Quotes
                    /\ StartsWithAt(s, "/api/", i + 1)
                    /\ NonQuoteEnd(s, i + 6) >= i + 6
                    /\ NonQuoteEnd(s, i + 6) < Len(s)}
        i    == CHOOSE h \in hits : \A g \in hits : h <= g
    IN  IF hits = {} THEN <<>> ELSE <<SubSeq(s, i, NonQuoteEnd(s, i + 6) + 1)>>

\* text.match(/method:\s*['"]([^'"]+)['"]/)?.[1].
MethodOption(s) ==
    LET ValueAt(i) == RunEnd(s, i + 7, WhitespaceChars) + 2
        hits == {i \in 1..Len(s) :
                    /\ StartsWithAt(s, "method:", i)
                    /\ CharAt(s, ValueAt(i) - 1) \in Quotes
                    /\ NonQuoteEnd(s, ValueAt(i)) >= ValueAt(i)
                    /\ NonQuoteEnd(s, ValueAt(i)) < Len(s)}
        i    == CHOOSE h \in hits : \A g \in hits : h <= g
    IN  IF hits = {} THEN <<>> ELSE <<SubSeq(s, ValueAt(i), NonQuoteEnd(s, ValueAt(i)))>>

\* text.match(/axios\.(get|post|put|delete)/)?.[1]?.toUpperCase().
AxiosMethod(s) ==
    LET verbs == <<"get", "post", "put", "delete">>
        upper == <<"GET", "POST", "PUT", "DELETE">>
        VerbAt(i) == {v \in 1..Len(verbs) : StartsWithAt(s, "axios." \o verbs[v], i)}
        hits == {i \in 1..Len(s) : VerbAt(i) # {}}
        i    == CHOOSE h \in hits : \A g \in hits : h <= g
    IN  IF hits = {} THEN <<>> ELSE <<upper[CHOOSE v \in VerbAt(i) : TRUE]>>

\* extractFormAction(node) for the node of root at path: <<>> (null) or the
\* action.  The form is looked for among the ancestors of the node.
extractFormAction(root, path) ==
    LET holders == SelectSeq(AncestorPaths(root, path),
                        LAMBDA a :
                            LET ancestor == NodeAt(root, a)
                            IN  \/ /\ ancestor.kind = "JsxElement"
                                   /\ TagName(ancestor) = "form"
                                \/ Includes(ancestor.text, "onSubmit"))
        formNode == NodeAt(root, holders[1])
        apiCalls == SelectSeq(getDescendants(formNode),
                        LAMBDA d : \/ Includes(d.text, "fetch(")
                                   \/ Includes(d.text, "axios.")
                                   \/ Includes(d.text, "/api/"))
        literal  == ApiLiteral(apiCalls[1].text)
        method   == IF MethodOption(apiCalls[1].text) # <<>>
                    THEN MethodOption(apiCalls[1].text)
                    ELSE AxiosMethod(apiCalls[1].text)
    IN  IF holders = <<>> THEN <<>>
        ELSE IF apiCalls = <<>>
        THEN <<[handler |-> "onSubmit", endpoint |-> <<>>, method |-> <<>>]>>
        ELSE <<[handler  |-> "onSubmit",
                endpoint |-> IF literal = <<>> THEN <<>>
                             ELSE <<StripChars(literal[1], Quotes)>>,
                method   |-> method]>>

\* el.tag === 'input' || el.tag === 'select' || el.tag === 'textarea'.
IsFieldTag(tag) == tag \in {"input", "select", "textarea"}

\* formNode.getDescendants().map(analyzeElement).filter(el => el !== null &&
\* (el.tag === 'input' || ...)) for the form at path.
FieldsOf(root, path) ==
    SelectSeq(ElementsBelow(root, path), LAMBDA el : IsFieldTag(el.tag))

\* forms: for each JsxElement whose opening element's text includes 'form'
\* and that has a form action, the action and the fields.
FormsOf(root) ==
    LET nodes == getDescendants(root)
        paths == DescendantPaths(root, <<>>)
    IN  FlattenOptions([k \in 1..Len(nodes) |->
            IF /\ nodes[k].kind = "JsxElement"
               /\ LowerIncludes(nodes[k].children[1].text, "form")
            THEN LET action == extractFormAction(root, paths[k])
                 IN  IF action = <<>> THEN <<>>
                     ELSE <<[action |-> action[1], fields |-> FieldsOf(root, paths[k])]>>
            ELSE <<>>])

\* text.match(/useState[<\s]*(.*?)[\s>]/) tried at an occurrence of useState
\* at position i: <<>> without a match there, else <<the first group>>: the
\* text after the run of "<" and whitespace up to the next whitespace or ">";
\* when there is none, the run is given back down to its last whitespace
\* and the group is empty.
StateTypeAt(s, i) ==
    LET runEnd == RunEnd(s, i + 8, WhitespaceChars \cup {"<"})
        ends   == {m \in (runEnd + 1)..Len(s) : SubSeq(s, m, m) \in WhitespaceChars \cup {">"}}
        m      == CHOOSE e \in ends : \A f \in ends : e <= f
    IN  IF ends # {} THEN <<SubSeq(s, runEnd + 1, m - 1)>>
        ELSE IF \E q \in (i + 8)..runEnd : SubSeq(s, q, q) \in WhitespaceChars THEN <<"">>
        ELSE <<>>

\* match?.[1] || null: <<>> (null) or the group of the leftmost match.
StateTypeOf(s) ==
    LET hits == {i \in 1..Len(s) : StartsWithAt(s, "useState", i) /\ StateTypeAt(s, i) # <<>>}
        i    == CHOOSE h \in hits : \A g \in hits : h <= g
    IN  IF hits = {} \/ StateTypeAt(s, i) = <<"">> THEN <<>> ELSE StateTypeAt(s, i)

\* errorStates before its length test.
ErrorStatesOf(root) ==
    LET nodes == SelectSeq(DescendantsIncluding(root, "useState"),
                    LAMBDA d : \/ LowerIncludes(d.text, "error")
                               \/ LowerIncludes(d.text, "failed"))
    IN  FlattenOptions([k \in 1..Len(nodes) |-> StateTypeOf(nodes[k].text)])

\* apis before its length test: for each descendant whose text includes
\* '/api/', the literal without its quotes, or <<>> (undefined, which the
\* filter api !== null keeps) when the pattern does not match.
ApisOf(root) ==
    LET nodes == DescendantsIncluding(root, "/api/")
    IN  [k \in 1..Len(nodes) |->
            LET literal == ApiLiteral(nodes[k].text)
            IN  IF literal = <<>> THEN <<>> ELSE <<StripChars(literal[1], Quotes)>>]

\* components before its length test: the module of each import declaration
\* that starts neither with '.' nor with '@'.
ImportedModulesOf(sourceFile) ==
    LET imports == SelectSeq(sourceFile.children[1].children,
                             LAMBDA n : n.kind = "ImportDeclaration")
        modules == [k \in 1..Len(imports) |->
                        StripChars(imports[k].children[4].text, Quotes)]
    IN  SelectSeq(modules, LAMBDA mod : ~StartsWithAt(mod, ".", 1) /\ ~StartsWithAt(mod, "@", 1))

\* list.length > 0 ? list : undefined.
NonEmptyOrUndefined(list) == IF Len(list) > 0 THEN <<list>> ELSE <<>>

\* The ComponentAnalysis analyzeComponent returns.
AnalysisOf(sourceFile, elements) ==
    [file         |-> sourceFile.filePath,
     elements     |-> elements,
     forms        |-> NonEmptyOrUndefined(FormsOf(sourceFile)),
     stateCount   |-> StateCountOf(sourceFile),
     errorStates  |-> NonEmptyOrUndefined(ErrorStatesOf(sourceFile)),
     dependencies |-> [apis       |-> NonEmptyOrUndefined(ApisOf(sourceFile)),
                       components |-> NonEmptyOrUndefined(ImportedModulesOf(sourceFile))]]

\* An analysis that is returned also without elements.
ResultOfAnalysis(sourceFile, elements) == <<AnalysisOf(sourceFile, elements)>>

\* if (elements.length === 0) return null, else the analysis.
ResultOf(sourceFile, elements) ==
    IF Len(elements) = 0 THEN <<>> ELSE <<AnalysisOf(sourceFile, elements)>>

\* analyzeComponent(node) for a source file: <<>> (null) or the analysis.
analyzeComponent(sourceFile) == ResultOf(sourceFile, ElementsOf(sourceFile))

RECURSIVE SumOf(_)
SumOf(numbers) == IF numbers = <<>> THEN 0 ELSE numbers[1] + SumOf(Tail(numbers))

\* imp.getModuleSpecifierValue() of every import declaration of a file.
ModuleSpecifiersOf(sourceFile) ==
    LET imports == SelectSeq(sourceFile.children[1].children,
                             LAMBDA n : n.kind = "ImportDeclaration")
    IN  {StripChars(imports[k].children[4].text, Quotes) : k \in 1..Len(imports)}

\* The type and componentStyle detectFramework sets, <<>> for a file of no
\* framework it knows.
FrameworkTypeOf(sourceFile) ==
    LET fileContent == sourceFile.text
        modules     == ModuleSpecifiersOf(sourceFile)
    IN  IF \/ "react" \in modules
           \/ Includes(fileContent, "React.")
           \/ Includes(fileContent, "jsx")
           \/ Includes(fileContent, "tsx")
        THEN <<"react", IF Includes(fileContent, "class") THEN "class" ELSE "function">>
        ELSE IF \/ "vue" \in modules
                \/ Includes(fileContent, "@Vue")
                \/ Includes(fileContent, "template>")
        THEN <<"vue", IF Includes(fileContent, "setup()") THEN "function" ELSE "template">>
        ELSE IF \/ \E mod \in modules : Includes(mod, "@angular")
                \/ Includes(fileContent, "@Component")
                \/ Includes(fileContent, "@Injectable")
        THEN <<"angular", "class">>
        ELSE IF \/ Includes(fileContent, "<script") /\ Includes(fileContent, "<style")
                \/ "svelte" \in modules
        THEN <<"svelte", "template">>
        ELSE <<>>

\* patterns.hooks: the texts of the call expressions that start with 'use'.
HooksOf(sourceFile) ==
    LET calls == SelectSeq(getDescendants(sourceFile), LAMBDA n : n.kind = "CallExpression")
    IN  SelectSeq([k \in 1..Len(calls) |-> calls[k].text], LAMBDA t : StartsWithAt(t, "use", 1))

\* detectFramework(sourceFile): a field the code leaves unset is <<>>.
detectFramework(sourceFile) ==
    LET found == FrameworkTypeOf(sourceFile)
    IN  [type           |-> IF found = <<>> THEN <<>> ELSE <<found[1]>>,
         componentStyle |-> IF found = <<>> THEN <<>> ELSE <<found[2]>>,
         patterns       |-> IF found # <<>> /\ found[1] = "react"
                            THEN <<[hooks |-> HooksOf(sourceFile)]>>
                            ELSE <<>>]

\* analyze(): the analyses that are not null, the framework of the first
\* source file (undefined, <<>>, without one) and the summary.
analyze(files) ==
    LET components == FlattenOptions([k \in 1..Len(files) |-> analyzeComponent(files[k])])
    IN  [components |-> components,
         framework |-> IF files # <<>> THEN <<detectFramework(files[1])>> ELSE <<>>,
         summary |->
            [totalFiles |-> Len(components),
             totalElements |-> SumOf([k \in 1..Len(components) |->
                                        Len(components[k].elements)]),
             totalStates |-> SumOf([k \in 1..Len(components) |-> components[k].stateCount]),
             interactiveElements |->
                SumOf([k \in 1..Len(components) |->
                        Len(SelectSeq(components[k].elements, LAMBDA e : e.hasEvents))])]]

StringAttribute(name, value) == JsxAttribute(name, <<StringLiteral(value)>>)

ExpressionAttribute(name, expression) ==
    JsxAttribute(name, <<JsxExpression(Identifier(expression))>>)

\* What a component returns.
JsxSamples ==
    {Token("NullKeyword", "null"),
     JsxElement("button", <<>>, <<JsxText("Submit")>>),
     JsxElement("button", <<ExpressionAttribute("onClick", "save")>>, <<JsxText("Save")>>),
     JsxElement("div", <<>>,
        <<JsxSelfClosingElement("input",
            <<StringAttribute("data-testid", "email"), StringAttribute("name", "email"),
              StringAttribute("type", "email"), JsxAttribute("required", <<>>),
              ExpressionAttribute("minLength", "3")>>)>>),
     JsxElement("a", <<StringAttribute("href", "/home")>>, <<JsxText(" Home ")>>),
     JsxElement("NavLink", <<StringAttribute("to", "/cart")>>, <<JsxText("Cart")>>),
     JsxElement("menu", <<StringAttribute("id", "main")>>,
        <<JsxElement("li", <<>>, <<JsxText("One")>>),
          JsxElement("li", <<>>, <<JsxText("  ")>>)>>),
     JsxElement("div", <<StringAttribute("role", "dialog"),
                         StringAttribute("aria-label", "Confirm")>>,
        <<JsxElement("span", <<StringAttribute("id", "t")>>, <<JsxText("Sure?")>>),
          JsxSelfClosingElement("Toggle",
            <<StringAttribute("role", "switch"), StringAttribute("aria-labelledby", "t")>>)>>),
     JsxElement("form", <<StringAttribute("data-testid", "login"),
                          StringAttribute("name", "login")>>,
        <<JsxElement("button", <<>>, <<JsxText("Go")>>)>>),
     JsxSelfClosingElement("img", <<StringAttribute("src", "a.png")>>),
     JsxElement("form",
        <<JsxAttribute("onSubmit",
            <<JsxExpression(ArrowFunction(
                CallExpression("fetch", <<StringLiteral("/api/login")>>)))>>)>>,
        <<JsxSelfClosingElement("input", <<StringAttribute("name", "user"),
                                           JsxAttribute("required", <<>>)>>),
          JsxElement("select", <<StringAttribute("name", "role")>>, <<>>)>>)}

\* How the state declarations of a component are nested: one entry for each
\* useState call, the number of blocks around it.
StateLayouts == <<<<>>, <<0>>, <<1>>, <<0, 2>>>>

\* The layout of the k-th file of a project whose first file has the r-th one.
LayoutOf(r, k) == StateLayouts[((r + k - 2) % Len(StateLayouts)) + 1]

RECURSIVE Nested(_, _)
\* A statement inside depth blocks.
Nested(statement, depth) ==
    IF depth = 0 THEN statement ELSE Block(<<Nested(statement, depth - 1)>>)

StateStatements(layout) ==
    [k \in 1..Len(layout) |->
        Nested(IF k = 1
               THEN StateDeclaration("s1", "setS1",
                        CallExpression("useState", <<Token("NumericLiteral", "0")>>))
               ELSE StateDeclaration("error", "setError",
                        CallExpression("useState", <<StringLiteral("")>>)),
               layout[k])]

\* The k-th source file of a project: a component with its state declarations
\* and what it returns; it imports useState when it declares state.
ComponentFile(k, layout, returned) ==
    SourceFile("/w/src/c" \o NatStr(k) \o ".tsx",
               (IF layout = <<>> THEN <<>> ELSE <<ImportDeclaration("useState", "react")>>)
                \o <<FunctionDeclaration("C" \o NatStr(k),
                        StateStatements(layout) \o <<ReturnStatement(returned)>>)>>)

MaxSourceFiles == 2

\* The projects of up to maxFiles source files.
SourceFileLists(maxFiles) ==
    UNION {{[k \in 1..n |-> ComponentFile(k, LayoutOf(r, k), returns[k])]
                : r \in 1..Len(StateLayouts), returns \in [1..n -> JsxSamples]}
            : n \in 0..maxFiles}

InitAnalyze ==
    /\ pc = "loaded"
    /\ sourceFiles \in SourceFileLists(MaxSourceFiles)
    /\ analysis = <<>>
    /\ PrioritizerIdle /\ ChunkerIdle /\ SanitizerIdle /\ ParserIdle /\ GeneratorIdle
    /\ ExtractorIdle /\ WriterIdle /\ PromptIdle /\ EmbedderIdle

\* analyze(projectPath) on the source files of the project.
Analyze ==
    /\ pc = "loaded"
    /\ pc' = "analyzed"
    /\ analysis' = analyze(sourceFiles)
    /\ UNCHANGED <<prioritizerVars, chunkerVars, sanitizerVars, parserVars, testFiles,
                   generatorVars, extractorVars, writerVars, sourceFiles,
                   promptVars, embedderVars>>

NextAnalyze == Analyze

SpecAnalyze == InitAnalyze /\ [][NextAnalyze]_vars

(***************************************************************************)
(* Claims about the Structural Analyzer (under SpecAnalyze).               *)
(***************************************************************************)

\* The JSX element and self-closing element nodes of a file, in document order.
ElementNodes(sourceFile) ==
    SelectSeq(getDescendants(sourceFile), LAMBDA d : IsElementKind(d.kind))

\* The source files that have such a node, in project order.
FilesWithElements == SelectSeq(sourceFiles, LAMBDA f : ElementNodes(f) # <<>>)

\* C17: analyzeComponent returns null for every file whose syntax tree has no
\* JSX element or self-closing element node, and otherwise an analysis whose
\* elements list is non-empty; analyze() keeps exactly the files with a
\* non-null result: its components are the analyses of the files that have
\* such a node, in project order, each with one element for each such node.
C17_NullWithoutElements ==
    pc = "analyzed" =>
        LET files == FilesWithElements
        IN  /\ Len(analysis.components) = Len(files)
            /\ \A k \in 1..Len(analysis.components) :
                  /\ analysis.components[k].file = files[k].filePath
                  /\ analysis.components[k].elements # <<>>
                  /\ Len(analysis.components[k].elements) = Len(ElementNodes(files[k]))
            /\ analysis.summary.totalFiles = Len(files)

\* A project of two files, the first without a JSX element and the second
\* with some, analyzed into one component.
C17_Witness ==
    /\ pc = "analyzed"
    /\ Len(sourceFiles) = 2
    /\ ElementNodes(sourceFiles[1]) = <<>>
    /\ Len(ElementNodes(sourceFiles[2])) >= 2
    /\ Len(analysis.components) = 1
    /\ analysis.components[1].file = sourceFiles[2].filePath

\* The source file an analysis was made of.
SourceOf(component) ==
    sourceFiles[CHOOSE k \in 1..Len(sourceFiles) : sourceFiles[k].filePath = component.file]

\* The attributes written on an element itself.
OwnAttributes(node) ==
    IF node.kind = "JsxElement" THEN node.children[1].children[3].children[1].children
    ELSE node.children[3].children[1].children

HasOwnAttribute(node, name) ==
    \E k \in 1..Len(OwnAttributes(node)) : AttributeName(OwnAttributes(node)[k]) = name

\* The event test as claimed, on the element as written in the source.
ClaimedHasEvents(node) ==
    \/ \E k \in 1..Len(OwnAttributes(node)) :
            StartsWithAt(AttributeName(OwnAttributes(node)[k]), "on", 1)
    \/ HasOwnAttribute(node, "href")
    \/ HasOwnAttribute(node, "onClick")
    \/ \E word \in {"button", "link", "menu"} : Includes(ToLowerCase(TagName(node)), word)

\* C18: hasEvents of an element is true if and only if an attribute name
\* begins with "on", or an href or onClick prop is present, or the tag or
\* component name contains "button", "link" or "menu"; so it is true for a
\* button without attributes.
C18_HasEventsIff ==
    pc = "analyzed" =>
        \A c \in 1..Len(analysis.components) :
            LET component == analysis.components[c]
                nodes     == ElementNodes(SourceOf(component))
            IN  \A k \in 1..Len(component.elements) :
                    component.elements[k].hasEvents <=> ClaimedHasEvents(nodes[k])

\* C19: the testId, name, label and role selectors of an element come only
\* from the attributes written on that element: without data-testid (name,
\* aria-label, role) on it the selector is unset, whatever its ancestors and
\* the elements nested in it carry.  (A label named by the element's own
\* aria-labelledby is left aside.)
C19_SelectorsFromOwnAttributes ==
    pc = "analyzed" =>
        \A c \in 1..Len(analysis.components) :
            LET component == analysis.components[c]
                nodes     == ElementNodes(SourceOf(component))
            IN  \A k \in 1..Len(component.elements) :
                    LET selectors == component.elements[k].selectors
                    IN  /\ ~HasOwnAttribute(nodes[k], "data-testid") => selectors.testId = <<>>
                        /\ ~HasOwnAttribute(nodes[k], "name") => selectors.name = <<>>
                        /\ ~HasOwnAttribute(nodes[k], "role") => selectors.role = <<>>
                        /\ (~HasOwnAttribute(nodes[k], "aria-label")
                                /\ ~HasOwnAttribute(nodes[k], "aria-labelledby"))
                               => selectors.label = <<>>

\* The useState calls of a file.
StateCalls(sourceFile) ==
    SelectSeq(getDescendants(sourceFile),
              LAMBDA d : d.kind = "CallExpression" /\ d.children[1].text = "useState")

\* C20: stateCount is the number of useState call occurrences of the file,
\* however deeply each call is nested.
C20_StateCountIsCallCount ==
    pc = "analyzed" =>
        \A c \in 1..Len(analysis.components) :
            analysis.components[c].stateCount
                = Len(StateCalls(SourceOf(analysis.components[c])))

\* The form elements of a file, in document order.
FormElementNodes(sourceFile) ==
    SelectSeq(getDescendants(sourceFile),
              LAMBDA d : d.kind = "JsxElement" /\ TagName(d) = "form")

\* The native input, select and textarea elements in the subtree of a node.
NativeFieldNodes(node) ==
    SelectSeq(getDescendants(node),
              LAMBDA d : IsElementKind(d.kind) /\ TagName(d) \in {"input", "select", "textarea"})

\* C27: for every form recorded in a ComponentAnalysis, fields lists the
\* input, select and textarea elements of the form's subtree: a recorded form
\* with a native input, select or textarea in it has a non-empty fields list.
C27_FormFieldsListed ==
    pc = "analyzed" =>
        \A c \in 1..Len(analysis.components) :
            LET component == analysis.components[c]
                nodes     == FormElementNodes(SourceOf(component))
            IN  (component.forms # <<>> /\ Len(component.forms[1]) = Len(nodes)) =>
                    \A k \in 1..Len(nodes) :
                        /\ Len(component.forms[1][k].fields) = Len(NativeFieldNodes(nodes[k]))
                        /\ NativeFieldNodes(nodes[k]) # <<>>
                                => component.forms[1][k].fields # <<>>

(***************************************************************************)
(* Embedder: the singleton pipeline, processComponent and embedComponents. *)
(* embedComponents starts processComponent for every component in one      *)
(* synchronous pass; each call runs up to its first pending await.         *)
(***************************************************************************)

MaxCallers == 3
MaxRounds == 2
MaxDimensions == 2

\* [tag, selectors.text, hasEvents ? 'interactive' : '', type].filter(Boolean)
ElementWords(e) ==
    SelectSeq(<<e.tag>> \o e.selectors.text
                  \o <<IF e.hasEvents THEN "interactive" ELSE "">> \o e.type,
              LAMBDA w : w # "")

\* [component.file, ...component.elements.map(...)].join(' '): each inner
\* array is converted with its own join(',').
ComponentText(component) ==
    JoinWith(<<component.file>>
                \o [k \in 1..Len(component.elements) |->
                        JoinWith(ElementWords(component.elements[k]), ",")],
             " ")

EmbedSampleBodies ==
    {JsxElement("button", <<>>, <<JsxText("Submit")>>),
     JsxElement("button", <<ExpressionAttribute("onClick", "save")>>, <<JsxText("Save")>>)}

\* The ComponentAnalysis lists handed to embedComponents.
EmbedInputs(maxLength) ==
    UNION {[1..n -> {analyzeComponent(ComponentFile(1, <<>>, body))[1] : body \in EmbedSampleBodies}]
            : n \in 0..maxLength}

NoPipeline == 0

\* processComponent up to the await in getInstance: with no instance yet the
\* call creates pipeline number created and waits for it; with an instance
\* getInstance returns it.
StartCaller(component, current, created) ==
    [file      |-> component.file,
     text      |-> ComponentText(component),
     pos       |-> IF current = <<>> THEN "loading" ELSE "embedding",
     pipeline  |-> IF current = <<>> THEN created ELSE NoPipeline,
     received  |-> IF current = <<>> THEN NoPipeline ELSE current[1],
     vector    |-> <<>>,
     timestamp |-> 0]

\* The number of pipeline() calls one pass over components makes.
PipelineCalls(current, list) == IF current = <<>> THEN Len(list) ELSE 0

InitEmbed ==
    /\ pc = "ready"
    /\ EmbedderIdle
    /\ PrioritizerIdle /\ ChunkerIdle /\ SanitizerIdle /\ ParserIdle /\ GeneratorIdle
    /\ ExtractorIdle /\ WriterIdle /\ PromptIdle /\ AnalyzerIdle

\* embedComponents(analysis) up to the await of Promise.all: analysis.map
\* calls processComponent for every component before any pipeline loads.
EmbedComponents ==
    /\ pc \in {"ready", "saved", "saveFailed"}
    /\ Len(saved) < MaxRounds
    /\ \E input \in EmbedInputs(MaxCallers) :
          /\ embedInput' = input
          /\ callers' = [k \in 1..Len(input) |-> StartCaller(input[k], instance, pipelines + k)]
          /\ pipelines' = pipelines + PipelineCalls(instance, input)
    /\ pc' = "embedding"
    /\ UNCHANGED <<instance, saved>>
    /\ UNCHANGED <<prioritizerVars, chunkerVars, sanitizerVars, parserVars, testFiles,
                   generatorVars, extractorVars, writerVars, analyzerVars, promptVars>>

\* The pipeline caller k created is loaded: this.instance = await pipeline(...);
\* return this.instance.
PipelineLoaded(k) ==
    /\ pc = "embedding"
    /\ callers[k].pos = "loading"
    /\ instance' = <<callers[k].pipeline>>
    /\ callers' = [callers EXCEPT ![k].pos = "embedding", ![k].received = callers[k].pipeline]
    /\ UNCHANGED <<pc, embedInput, pipelines, saved>>
    /\ UNCHANGED <<prioritizerVars, chunkerVars, sanitizerVars, parserVars, testFiles,
                   generatorVars, extractorVars, writerVars, analyzerVars, promptVars>>

\* The number of processComponent calls that have returned.
Returned == Len(SelectSeq(callers, LAMBDA c : c.pos = "done"))

\* embed: the pipeline caller k received answers with a vector;
\* processComponent returns file, vector and timestamp.
Embedded(k) ==
    /\ pc = "embedding"
    /\ callers[k].pos = "embedding"
    /\ \E length \in 1..MaxDimensions :
          callers' = [callers EXCEPT ![k].pos = "done",
                                     ![k].vector = <<[by |-> callers[k].received, length |-> length]>>,
                                     ![k].timestamp = Returned + 1]
    /\ UNCHANGED <<pc, embedInput, instance, pipelines, saved>>
    /\ UNCHANGED <<prioritizerVars, chunkerVars, sanitizerVars, parserVars, testFiles,
                   generatorVars, extractorVars, writerVars, analyzerVars, promptVars>>

RECURSIVE ByteLength(_)
ByteLength(vectors) ==
    IF vectors = <<>> THEN 0 ELSE 4 * vectors[1].length + ByteLength(Tail(vectors))

\* The metadata object of embedComponents.
MetadataOf(embeddings, vectors) ==
    [version    |-> "1.0",
     model      |-> "Xenova/all-MiniLM-L6-v2",
     dimensions |-> vectors[1].length,
     components |-> [i \in 1..Len(embeddings) |->
                        [file         |-> embeddings[i].file,
                         vectorOffset |-> (i - 1) * vectors[1].length * 4,
                         timestamp    |-> embeddings[i].timestamp]]]

\* The vectors of embedComponents: one Float32Array for each embedding.
VectorsOf(embeddings) == [k \in 1..Len(embeddings) |-> embeddings[k].vector[1]]

\* await Promise.all(...) settles once every processComponent call has
\* returned: fs.mkdir(outputDir, { recursive: true }) is awaited.
EmbeddingsReady ==
    /\ pc = "embedding"
    /\ \A k \in 1..Len(callers) : callers[k].pos = "done"
    /\ pc' = "makingDir"
    /\ UNCHANGED <<embedInput, instance, pipelines, callers, saved>>
    /\ UNCHANGED <<prioritizerVars, chunkerVars, sanitizerVars, parserVars, testFiles,
                   generatorVars, extractorVars, writerVars, analyzerVars, promptVars>>

\* await fs.mkdir settles: the write of embeddings.bin is awaited.
DirectoryMade ==
    /\ pc = "makingDir"
    /\ pc' = "writingBinary"
    /\ UNCHANGED <<embedInput, instance, pipelines, callers, saved>>
    /\ UNCHANGED <<prioritizerVars, chunkerVars, sanitizerVars, parserVars, testFiles,
                   generatorVars, extractorVars, writerVars, analyzerVars, promptVars>>

\* await fs.writeFile(embeddings.bin) settles: the metadata is built and the
\* write of metadata.json is awaited; vectors[0].length throws a TypeError
\* when there is no vector.
BinaryWritten ==
    /\ pc = "writingBinary"
    /\ saved' = Append(saved, [binary   |-> ByteLength(VectorsOf(callers)),
                               metadata |-> <<>>,
                               vectors  |-> <<>>])
    /\ pc' = IF callers = <<>> THEN "saveFailed" ELSE "writingMetadata"
    /\ UNCHANGED <<embedInput, instance, pipelines, callers>>
    /\ UNCHANGED <<prioritizerVars, chunkerVars, sanitizerVars, parserVars, testFiles,
                   generatorVars, extractorVars, writerVars, analyzerVars, promptVars>>

\* await fs.writeFile(metadata.json) settles: return { metadata, vectors }.
MetadataWritten ==
    /\ pc = "writingMetadata"
    /\ saved' = [saved EXCEPT ![Len(saved)].metadata = <<MetadataOf(callers, VectorsOf(callers))>>,
                              ![Len(saved)].vectors = VectorsOf(callers)]
    /\ pc' = "saved"
    /\ UNCHANGED <<embedInput, instance, pipelines, callers>>
    /\ UNCHANGED <<prioritizerVars, chunkerVars, sanitizerVars, parserVars, testFiles,
                   generatorVars, extractorVars, writerVars, analyzerVars, promptVars>>

NextEmbed ==
    \/ EmbedComponents
    \/ \E k \in 1..Len(callers) : PipelineLoaded(k)
    \/ \E k \in 1..Len(callers) : Embedded(k)
    \/ EmbeddingsReady
    \/ DirectoryMade
    \/ BinaryWritten
    \/ MetadataWritten

SpecEmbed == InitEmbed /\ [][NextEmbed]_vars

\* C26: Embedder.getInstance creates the feature-extraction pipeline at most
\* once per process, also when several calls are in progress at the same
\* time: every caller receives the same pipeline instance.
C26_PipelineCreatedOnce ==
    /\ pipelines <= 1
    /\ \A j, k \in 1..Len(callers) :
          (callers[j].received # NoPipeline /\ callers[k].received # NoPipeline)
              => callers[j].received = callers[k].received

====
